---- MODULE Spec2Model ----
(***************************************************************************)
(* Model of the Intelligent Mobile Agent's action resolution engine:       *)
(* IntelligentMobileAgent.execute_task_instruction and the components it   *)
(* drives (TaskExecutionState, ActionCoordinator, QwenVisionAgent's reply  *)
(* parser, UIElementParser, AppUtilities).                                 *)
(*                                                                         *)
(* Text.  Every string the program handles is a line of text, modelled as  *)
(* a sequence of tokens.  A token is a record [k, x, y, w]:                *)
(*   k = "TAP"   the text "TAP (x,y)", what TAP\s*\((\d+),\s*(\d+)\)        *)
(*               matches, with x and y the two digit groups;               *)
(*   k = "TYPE"  the text "TYPE 'w'" with w non-empty, what both           *)
(*               TYPE\s*['"] and TYPE\s*['"]([^'"]+)['"] match;            *)
(*   k = "TYPE0" the text "TYPE ''", which TYPE\s*['"] matches and         *)
(*               TYPE\s*['"]([^'"]+)['"] does not;                         *)
(*   k = "TYPE<" the text "TYPE 'w" at the end of a line, the quote left   *)
(*               open, which TYPE\s*['"] matches;                          *)
(*   k = ">"     the text "w'" at the start of the next line, which        *)
(*               closes that quote;                                        *)
(*   k = "NL"    the line break inside a text of several lines;            *)
(*   k = "W"     any other piece of text w, taken from a vocabulary.       *)
(* A substring test of the code ('SCROLL' in line.upper(), a keyword in    *)
(* text.lower(), ...) holds of a line when it holds of one of its tokens,  *)
(* and it holds of a vocabulary word according to the tables below.        *)
(* A reply of the vision model is a sequence of lines (its split on '\n'), *)
(* each already stripped.  None and the empty string are both the empty    *)
(* line: the code only ever tests them with "if not ...".  The word        *)
(* "fence" stands for the three backquotes of a code fence.                *)
(***************************************************************************)
EXTENDS Integers, Sequences, FiniteSets, TLC

\* ------------------------------------------------------------------ bounds

\* the configured step budget (MAXIMUM_EXECUTION_STEPS) of Spec
MaxSteps == 4
\* the step budget of the long runs of SpecTaps, SpecScreens and SpecFixed
MaxStepsLong == 12
\* the number of distinct screenshot fingerprints the device can show
NumHashes == 4
\* the nodes of a UI dump handed to the ranker on its own
MaxElements == 6

\* ------------------------------------------------------- program constants

\* ActionCoordinator.max_action_repetitions
max_action_repetitions == 2
\* executed_actions_history[-4:]
RecentActionsWindow == 4
\* executed_actions_history[-10:]
ActionHistoryCap == 10
\* screen_hash_history[-5:]
ScreenHashCap == 5
\* screen_hash_history[-3:]
ScreenLoopWindow == 3
\* search_candidates[:5]
TopCandidates == 5

\* ------------------------------------------------------------------- text

Tap(x, y) == [k |-> "TAP", x |-> x, y |-> y, w |-> ""]
TypeQ(w) == [k |-> "TYPE", x |-> 0, y |-> 0, w |-> w]
TypeEmpty == [k |-> "TYPE0", x |-> 0, y |-> 0, w |-> ""]
Word(w) == [k |-> "W", x |-> 0, y |-> 0, w |-> w]
\* a quoted text that runs over a line break: "TYPE 'w" ends its line with the
\* quote still open, and "w'" begins the next line and closes it
TypeOpen(w) == [k |-> "TYPE<", x |-> 0, y |-> 0, w |-> w]
QuoteEnd(w) == [k |-> ">", x |-> 0, y |-> 0, w |-> w]
\* the line break '\n' inside a text
NL == [k |-> "NL", x |-> 0, y |-> 0, w |-> ""]

None == << >>

\* <<w, s>>: the vocabulary word w contains the string s, case-sensitively
ContainsExact ==
  { <<"TAP", "TAP">>, <<"TAP the TYPE box", "TAP">>,
    <<"TYPE", "TYPE">>, <<"TAP the TYPE box", "TYPE">>,
    <<"TASK_COMPLETE", "TASK_COMPLETE">>,
    <<"#", "#">>, <<"fence", "fence">> }

\* <<w, s>>: the lower-cased vocabulary word w contains the lower-case string s
ContainsLower ==
  { <<"search icon", "search">>, <<"Search:", "search">>,
    <<"Search products", "search">>, <<"search_box", "search">>,
    <<"search_box", "box">>, <<"TAP the TYPE box", "box">>,
    <<"chocolate bar", "bar">>,
    <<"SCROLL", "scroll">>, <<"scroll", "scroll">>,
    <<"up", "up">>, <<"popup", "up">>,
    <<"TASK_COMPLETE", "task_complete">>, <<"task_complete", "task_complete">>,
    <<"find it", "find">>, <<"magnify", "magnify">>,
    <<"query_text", "query">>,
    <<"android.widget.EditText", "edittext">> }

\* s in text: a TAP token is the text "TAP (x,y)", a TYPE token "TYPE 'w'"
TokenHas(t, s) ==
  CASE t.k = "TAP" -> s = "TAP"
    [] t.k = "TYPE" -> s = "TYPE" \/ <<t.w, s>> \in ContainsExact
    [] t.k = "TYPE0" -> s = "TYPE"
    [] t.k = "TYPE<" -> s = "TYPE" \/ <<t.w, s>> \in ContainsExact
    [] OTHER -> <<t.w, s>> \in ContainsExact

\* s in text.lower() (s lower-case), which is also s.upper() in text.upper()
TokenHasLower(t, s) ==
  CASE t.k = "TAP" -> s = "tap"
    [] t.k = "TYPE" -> s = "type" \/ <<t.w, s>> \in ContainsLower
    [] t.k = "TYPE0" -> s = "type"
    [] t.k = "TYPE<" -> s = "type" \/ <<t.w, s>> \in ContainsLower
    [] OTHER -> <<t.w, s>> \in ContainsLower

Has(line, s) == \E i \in 1..Len(line) : TokenHas(line[i], s)
HasLower(line, s) == \E i \in 1..Len(line) : TokenHasLower(line[i], s)

\* re.search(r'TAP\s*\((\d+),\s*(\d+)\)', line): the place of the leftmost match, 0 if none
TapMatch(line) ==
  IF \E i \in 1..Len(line) : line[i].k = "TAP"
  THEN CHOOSE i \in 1..Len(line) :
         line[i].k = "TAP" /\ \A j \in 1..(i - 1) : line[j].k # "TAP"
  ELSE 0

\* re.search(r"TYPE\s*['\"]", line)
TypeOpenMatch(line) ==
  \E i \in 1..Len(line) : line[i].k \in {"TYPE", "TYPE0", "TYPE<"}

\* re.search(r"TYPE\s*['\"]([^'\"]+)['\"]", line): the place of the leftmost match, 0 if none
TypeMatch(line) ==
  IF \E i \in 1..Len(line) : line[i].k = "TYPE"
  THEN CHOOSE i \in 1..Len(line) :
         line[i].k = "TYPE" /\ \A j \in 1..(i - 1) : line[j].k # "TYPE"
  ELSE 0

\* line.startswith(s), for the markers '#' and the code fence (the word "fence")
StartsWith(line, s) == Len(line) > 0 /\ line[1] = Word(s)

\* line.split('#', 1)[1].strip(), for a line with '#' in it
AfterHash(line) ==
  LET i == CHOOSE i \in 1..Len(line) :
             line[i] = Word("#") /\ \A j \in 1..(i - 1) : line[j] # Word("#")
  IN SubSeq(line, i + 1, Len(line))

\* the lines of a text joined again: what a search of the unsplit text sees
RECURSIVE Flatten(_)
Flatten(lines) ==
  IF lines = << >> THEN << >>
  ELSE IF Len(lines) = 1 THEN lines[1]
  ELSE Head(lines) \o <<NL>> \o Flatten(Tail(lines))

\* text.split('\n')
RECURSIVE SplitLines(_)
SplitLines(text) ==
  IF \A i \in 1..Len(text) : text[i] # NL THEN <<text>>
  ELSE LET i == CHOOSE i \in 1..Len(text) :
                  text[i] = NL /\ \A j \in 1..(i - 1) : text[j] # NL
       IN <<SubSeq(text, 1, i - 1)>> \o SplitLines(SubSeq(text, i + 1, Len(text)))

\* re.search(r"TYPE\s*['\"]([^'\"]+)['\"]", text) on a text of several lines: the
\* place of the leftmost match, 0 if none.  [^'\"]+ runs over a line break, so
\* "TYPE 'w" at the end of a line matches together with the "v'" that begins
\* the next line.
TypeSpanMatch(text) ==
  LET at(i) == \/ text[i].k = "TYPE"
               \/ /\ text[i].k = "TYPE<"
                  /\ i + 2 <= Len(text)
                  /\ text[i + 1] = NL
                  /\ text[i + 2].k = ">"
  IN IF \E i \in 1..Len(text) : at(i)
     THEN CHOOSE i \in 1..Len(text) : at(i) /\ \A j \in 1..(i - 1) : ~at(j)
     ELSE 0

\* f"TYPE '{type_pattern.group(1)}'" for the match at place i
TypeSpanText(text, i) ==
  IF text[i].k = "TYPE" THEN <<TypeQ(text[i].w)>>
  ELSE <<TypeOpen(text[i].w), NL, QuoteEnd(text[i + 2].w)>>

\* seq[-n:]
LastN(seq, n) ==
  IF Len(seq) <= n THEN seq ELSE SubSeq(seq, Len(seq) - n + 1, Len(seq))

\* seq.count(v)
Count(seq, v) == Cardinality({i \in 1..Len(seq) : seq[i] = v})

\* ----------------------------------------------------- QwenVisionAgent

\* ScaleCoord applied a second time to its own result
ScaleCoordTwice(v, sf) == (((v * sf[1]) \div sf[2]) * sf[1]) \div sf[2]

\* The scale factor <<n, d>> is the double n / d (lines 33-34 of
\* compress_and_encode_image) and v * sf is a product of doubles, rounded to 53
\* bits.  DoubleProductBelow lists, among the coordinates 50, 60, 100, 150, 200,
\* 300, 400, 540 and the scale factors 1, 2, 3/2, 23/10, the pairs whose product
\* as a double lies below the integer v * n / d: the double 2.3 is below 23/10
\* and 100 * 2.3 is 229.99999999999997.
DoubleProductBelow ==
  { <<50, <<23, 10>>>>, <<100, <<23, 10>>>>, <<200, <<23, 10>>>>,
    <<400, <<23, 10>>>> }

\* int(original_x * width_scale_factor)
ScaleCoord(v, sf) ==
  IF <<v, sf>> \in DoubleProductBelow
  THEN (v * sf[1]) \div sf[2] - 1
  ELSE (v * sf[1]) \div sf[2]

\* LineAction with the comment of a tap line dropped
LineActionBare(line, width_scale_factor, height_scale_factor) ==
  LET m == TapMatch(line)
  IN IF m # 0
     THEN <<Tap(ScaleCoord(line[m].x, width_scale_factor),
                ScaleCoord(line[m].y, height_scale_factor)),
            Word("#"), Word("scaled coordinates")>>
     ELSE IF TypeOpenMatch(line) THEN line
     ELSE IF HasLower(line, "scroll") THEN line
     ELSE IF HasLower(line, "task_complete") THEN line
     ELSE None

\* lines 114-128: the action of one scanned line, None when no pattern matches
LineAction(line, width_scale_factor, height_scale_factor) ==
  LET m == TapMatch(line)
  IN IF m # 0
     THEN LET scaled_x == ScaleCoord(line[m].x, width_scale_factor)
              scaled_y == ScaleCoord(line[m].y, height_scale_factor)
              comment_text == IF Has(line, "#") THEN AfterHash(line)
                              ELSE <<Word("scaled coordinates")>>
          IN <<Tap(scaled_x, scaled_y), Word("#")>> \o comment_text
     ELSE IF TypeOpenMatch(line) THEN line
     ELSE IF HasLower(line, "scroll") THEN line
     ELSE IF HasLower(line, "task_complete") THEN line
     ELSE None

\* line 111: empty lines and markdown are skipped
SkippedLine(line) ==
  line = << >> \/ StartsWith(line, "#") \/ StartsWith(line, "fence")

\* ScanLines returning the action of the last scanned line with one
ScanLinesLast(response_lines, width_scale_factor, height_scale_factor) ==
  LET found == {i \in 1..Len(response_lines) :
                  /\ ~SkippedLine(response_lines[i])
                  /\ LineAction(response_lines[i], width_scale_factor,
                                height_scale_factor) # None}
  IN IF found = {} THEN None
     ELSE LineAction(response_lines[CHOOSE i \in found : \A j \in found : j <= i],
                     width_scale_factor, height_scale_factor)

\* lines 107-128: the first scanned line with an action
RECURSIVE ScanLines(_, _, _)
ScanLines(response_lines, width_scale_factor, height_scale_factor) ==
  IF response_lines = << >> THEN None
  ELSE LET line == Head(response_lines)
           a == IF SkippedLine(line) THEN None
                ELSE LineAction(line, width_scale_factor, height_scale_factor)
       IN IF a # None THEN a
          ELSE ScanLines(Tail(response_lines), width_scale_factor, height_scale_factor)

\* lines 130-154: the patterns searched in the whole response
FullTextAction(model_response, width_scale_factor, height_scale_factor) ==
  LET full_response_text == Flatten(model_response)
      m == TapMatch(full_response_text)
      t == TypeSpanMatch(full_response_text)
  IN IF m # 0
     THEN <<Tap(ScaleCoord(full_response_text[m].x, width_scale_factor),
                ScaleCoord(full_response_text[m].y, height_scale_factor)),
            Word("#"), Word("extracted and scaled")>>
     ELSE IF t # 0
     THEN TypeSpanText(full_response_text, t) \o <<Word("#"), Word("extracted action")>>
     ELSE IF HasLower(full_response_text, "scroll")
     THEN <<Word("SCROLL"), Word("down"), Word("#"), Word("extracted action")>>
     ELSE IF HasLower(full_response_text, "task_complete")
     THEN <<Word("TASK_COMPLETE"), Word(":"), Word("extracted from response")>>
     ELSE None

extract_action_from_response(model_response, width_scale_factor, height_scale_factor) ==
  LET a == ScanLines(model_response, width_scale_factor, height_scale_factor)
  IN IF a # None THEN a
     ELSE FullTextAction(model_response, width_scale_factor, height_scale_factor)

\* the prompt generate_context_aware_prompt chooses: the phase as the code reads it
generate_context_aware_prompt(search_initiated, query_entered) ==
  IF ~search_initiated THEN "SearchPending"
  ELSE IF ~query_entered THEN "SearchStarted"
  ELSE "QueryEntered"

\* -------------------------------------------------- TaskExecutionState

SearchKeywords == {"search", "input", "field", "box", "bar"}

\* update_task_progress with the phase set, not raised: a search tap makes it
\* SearchStarted
update_task_progress_set(executed_action, st) ==
  IF Has(executed_action, "TAP")
     /\ \E search_keyword \in SearchKeywords : HasLower(executed_action, search_keyword)
  THEN [search_initiated |-> TRUE, query_entered |-> FALSE]
  ELSE IF Has(executed_action, "TYPE")
  THEN [st EXCEPT !.query_entered = TRUE]
  ELSE st

\* st is the pair of progress flags [search_initiated, query_entered]
update_task_progress(executed_action, st) ==
  IF Has(executed_action, "TAP")
     /\ \E search_keyword \in SearchKeywords : HasLower(executed_action, search_keyword)
  THEN [st EXCEPT !.search_initiated = TRUE]
  ELSE IF Has(executed_action, "TYPE")
  THEN [st EXCEPT !.query_entered = TRUE]
  ELSE st

\* record_screen_hash keeping the first 5 entries ([:5])
record_screen_hash_keep_first(screen_hash, history) ==
  SubSeq(Append(history, screen_hash), 1,
         IF Len(history) + 1 < ScreenHashCap THEN Len(history) + 1 ELSE ScreenHashCap)

record_screen_hash(screen_hash, history) ==
  LastN(Append(history, screen_hash), ScreenHashCap)

\* detect_screen_loop asking for 2 occurrences among the last 3 entries
detect_screen_loop_repeated(hash, history) ==
  Count(LastN(history, ScreenLoopWindow), hash) >= 2

\* detect_screen_loop over the last 2 entries ([-2:])
detect_screen_loop_last_two(hash, history) ==
  \E i \in 1..Len(LastN(history, 2)) : LastN(history, 2)[i] = hash

\* detect_screen_loop over the whole history
detect_screen_loop_anywhere(hash, history) ==
  \E i \in 1..Len(history) : history[i] = hash

detect_screen_loop(hash, history) ==
  \E i \in 1..Len(LastN(history, ScreenLoopWindow)) :
     LastN(history, ScreenLoopWindow)[i] = hash

has_reached_step_limit(step, maximum) == step >= maximum

\* --------------------------------------------------- ActionCoordinator

\* the calls made on the AndroidController
TapCall(x, y) == [op |-> "tap", x |-> x, y |-> y, w |-> ""]
TypeCall(text) == [op |-> "type", x |-> 0, y |-> 0, w |-> text]
ScrollCall(dir) == [op |-> "scroll", x |-> 0, y |-> 0, w |-> dir]

\* f"TAP({x},{y})"
coordinate_string(t) == <<t.x, t.y>>

\* is_action_repeating with the configured maximum_action_repetitions (3)
is_action_repeating_configured(action_command, history) ==
  LET m == TapMatch(action_command)
  IN IF m # 0
     THEN Count(LastN(history, RecentActionsWindow), coordinate_string(action_command[m]))
            >= 3
     ELSE FALSE

is_action_repeating(action_command, history) ==
  LET m == TapMatch(action_command)
  IN IF m # 0
     THEN Count(LastN(history, RecentActionsWindow), coordinate_string(action_command[m]))
            >= max_action_repetitions
     ELSE FALSE

\* lines 34-45: the line holds one of the action patterns
HasActionPattern(line) ==
  \/ TapMatch(line) # 0
  \/ TypeOpenMatch(line)
  \/ HasLower(line, "scroll")
  \/ HasLower(line, "task_complete")

\* lines 28-45: the first line of the action with an action pattern, the whole
\* action when no line has one
RECURSIVE FirstActionLine(_, _)
FirstActionLine(action_lines, cleaned_action) ==
  IF action_lines = << >> THEN cleaned_action
  ELSE IF HasActionPattern(Head(action_lines)) THEN Head(action_lines)
  ELSE FirstActionLine(Tail(action_lines), cleaned_action)

PrimaryAction(action_command) ==
  FirstActionLine(SplitLines(action_command), action_command)

\* execute_parsed_action with every executed action tracked in the history, a
\* tap by its coordinates and any other action as <<0, 0>>
execute_parsed_action_track_all(action_command, history) ==
  LET cleaned_action == PrimaryAction(action_command)
      m == TapMatch(cleaned_action)
      t == TypeMatch(cleaned_action)
      tracked == LastN(Append(history, IF m # 0 THEN coordinate_string(cleaned_action[m])
                                       ELSE <<0, 0>>), ActionHistoryCap)
  IN IF m # 0 /\ is_action_repeating(cleaned_action, history)
     THEN [completed |-> FALSE, history |-> history, sent |-> <<ScrollCall("down")>>]
     ELSE IF m # 0
     THEN [completed |-> FALSE, history |-> tracked,
           sent |-> <<TapCall(cleaned_action[m].x, cleaned_action[m].y)>>]
     ELSE IF t # 0
     THEN [completed |-> FALSE, history |-> tracked,
           sent |-> <<TypeCall(cleaned_action[t].w)>>]
     ELSE IF HasLower(cleaned_action, "scroll")
     THEN [completed |-> FALSE, history |-> tracked,
           sent |-> <<ScrollCall(IF HasLower(cleaned_action, "up") THEN "up" ELSE "down")>>]
     ELSE IF HasLower(cleaned_action, "task_complete")
     THEN [completed |-> TRUE, history |-> history, sent |-> << >>]
     ELSE [completed |-> FALSE, history |-> history, sent |-> << >>]

\* execute_parsed_action without the return of line 53: a rejected tap is
\* replaced by a scroll down and then sent all the same
execute_parsed_action_no_return(action_command, history) ==
  LET cleaned_action == PrimaryAction(action_command)
      m == TapMatch(cleaned_action)
      t == TypeMatch(cleaned_action)
      tracked == LastN(Append(history, coordinate_string(cleaned_action[m])),
                       ActionHistoryCap)
  IN IF m # 0 /\ is_action_repeating(cleaned_action, history)
     THEN [completed |-> FALSE, history |-> tracked,
           sent |-> <<ScrollCall("down"),
                      TapCall(cleaned_action[m].x, cleaned_action[m].y)>>]
     ELSE IF m # 0
     THEN [completed |-> FALSE, history |-> tracked,
           sent |-> <<TapCall(cleaned_action[m].x, cleaned_action[m].y)>>]
     ELSE IF t # 0
     THEN [completed |-> FALSE, history |-> history,
           sent |-> <<TypeCall(cleaned_action[t].w)>>]
     ELSE IF HasLower(cleaned_action, "scroll")
     THEN [completed |-> FALSE, history |-> history,
           sent |-> <<ScrollCall(IF HasLower(cleaned_action, "up") THEN "up" ELSE "down")>>]
     ELSE IF HasLower(cleaned_action, "task_complete")
     THEN [completed |-> TRUE, history |-> history, sent |-> << >>]
     ELSE [completed |-> FALSE, history |-> history, sent |-> << >>]

\* The value: what is returned, the history afterwards and the calls made on
\* the AndroidController.
execute_parsed_action(action_command, history) ==
  LET cleaned_action == PrimaryAction(action_command)
      m == TapMatch(cleaned_action)
      t == TypeMatch(cleaned_action)
  IN IF m # 0 /\ is_action_repeating(cleaned_action, history)
     THEN [completed |-> FALSE, history |-> history, sent |-> <<ScrollCall("down")>>]
     ELSE IF m # 0
     THEN [completed |-> FALSE,
           history |-> LastN(Append(history, coordinate_string(cleaned_action[m])),
                             ActionHistoryCap),
           sent |-> <<TapCall(cleaned_action[m].x, cleaned_action[m].y)>>]
     ELSE IF t # 0
     THEN [completed |-> FALSE, history |-> history,
           sent |-> <<TypeCall(cleaned_action[t].w)>>]
     ELSE IF HasLower(cleaned_action, "scroll")
     THEN [completed |-> FALSE, history |-> history,
           sent |-> <<ScrollCall(IF HasLower(cleaned_action, "up") THEN "up" ELSE "down")>>]
     ELSE IF HasLower(cleaned_action, "task_complete")
     THEN [completed |-> TRUE, history |-> history, sent |-> << >>]
     ELSE [completed |-> FALSE, history |-> history, sent |-> << >>]

\* ------------------------------------------------------ UIElementParser

\* A node of the UI hierarchy dump, in document order: its attributes, with
\* bounds the four numbers of "[x1,y1][x2,y2]" or << >> when the attribute is
\* missing or does not hold two corners.
NodeElement(n) ==
  LET top_left_x == n.bounds[1]
      top_left_y == n.bounds[2]
      bottom_right_x == n.bounds[3]
      bottom_right_y == n.bounds[4]
  IN [center_x |-> (top_left_x + bottom_right_x) \div 2,
      center_y |-> (top_left_y + bottom_right_y) \div 2,
      display_text |-> n.text,
      content_description |-> n.desc,
      resource_id |-> n.rid,
      element_class |-> n.class,
      is_clickable |-> n.clickable,
      is_scrollable |-> n.scrollable,
      element_width |-> bottom_right_x - top_left_x,
      element_height |-> bottom_right_y - top_left_y]

\* line 43: the node is kept
UsefulNode(n) ==
  /\ n.bounds # << >>
  /\ n.clickable \/ n.scrollable \/ n.text # "" \/ n.desc # ""
  /\ (n.bounds[1] + n.bounds[3]) \div 2 > 0
  /\ (n.bounds[2] + n.bounds[4]) \div 2 > 0

RECURSIVE parse_ui_hierarchy(_)
parse_ui_hierarchy(nodes) ==
  IF nodes = << >> THEN << >>
  ELSE (IF UsefulNode(Head(nodes)) THEN <<NodeElement(Head(nodes))>> ELSE << >>)
       \o parse_ui_hierarchy(Tail(nodes))

\* keyword in text.lower(), for the one string of an attribute
StrHasLower(str, keyword) == <<str, keyword>> \in ContainsLower

\* lines 75-102
relevance_score(element) ==
  LET combined_text == {element.display_text, element.content_description,
                        element.resource_id}
      any(keywords, texts) ==
        \E keyword \in keywords : \E str \in texts : StrHasLower(str, keyword)
  IN (IF any({"search", "find"}, combined_text) THEN 5 ELSE 0)
     + (IF StrHasLower(element.element_class, "edittext") THEN 4 ELSE 0)
     + (IF any({"search", "query", "input"}, {element.resource_id}) THEN 3 ELSE 0)
     + (IF any({"search", "magnify", "glass"}, combined_text) THEN 2 ELSE 0)
     + (IF element.element_width > 200 /\ element.element_height > 30 THEN 1 ELSE 0)

\* InsertByScore putting an element before those of its own score
InsertByScoreBeforeTies(sorted, element) ==
  LET above == Cardinality({i \in 1..Len(sorted) :
                             relevance_score(sorted[i]) > relevance_score(element)})
  IN SubSeq(sorted, 1, above) \o <<element>> \o SubSeq(sorted, above + 1, Len(sorted))

\* list.sort(key=score, reverse=True) is stable: an element goes after those
\* before it with a score at least its own
RECURSIVE InsertByScore(_, _)
InsertByScore(sorted, element) ==
  IF sorted = << >> THEN <<element>>
  ELSE IF relevance_score(Head(sorted)) >= relevance_score(element)
  THEN <<Head(sorted)>> \o InsertByScore(Tail(sorted), element)
  ELSE <<element>> \o sorted

RECURSIVE SortByScore(_, _)
SortByScore(sorted, rest) ==
  IF rest = << >> THEN sorted
  ELSE SortByScore(InsertByScore(sorted, Head(rest)), Tail(rest))

identify_search_elements(element_list) ==
  LET search_candidates ==
        SelectSeq(element_list, LAMBDA element : relevance_score(element) > 0)
      ranked == SortByScore(<< >>, search_candidates)
  IN SubSeq(ranked, 1, IF Len(ranked) < TopCandidates THEN Len(ranked) ELSE TopCandidates)

\* get_clickable_elements keeping only the elements wider than 300
get_clickable_elements_wide(element_list) ==
  SelectSeq(element_list,
            LAMBDA element : element.is_clickable /\ element.element_width > 300)

get_clickable_elements(element_list) ==
  SelectSeq(element_list,
            LAMBDA element : element.is_clickable /\ element.element_width > 100)

\* a or b, for two strings
StrOr(a, b) == IF a # "" THEN a ELSE b

\* element_description[:30] keeps a vocabulary word whole: none is longer
generate_fallback_action(element_list, step_number) ==
  LET clickable_elements == get_clickable_elements(element_list)
  IN IF element_list = << >> \/ clickable_elements = << >> THEN None
     ELSE LET selected_element ==
                clickable_elements[(step_number % Len(clickable_elements)) + 1]
              element_description ==
                StrOr(StrOr(selected_element.display_text,
                            selected_element.content_description),
                      "interactive element")
          IN <<Tap(selected_element.center_x, selected_element.center_y),
               Word("#"), Word(element_description)>>

\* ---------------------------------------------------------- AppUtilities

get_predefined_fallback_actions ==
  << <<Tap(540, 150)>>,
     <<Word("SCROLL"), Word("down")>>,
     <<Tap(100, 300)>>,
     <<Tap(540, 400)>> >>

\* ------------------------------------------------ IntelligentMobileAgent

VARIABLES
  \* TaskExecutionState
  current_step_number, maximum_allowed_steps, search_initiated, query_entered,
  screen_hash_history,
  \* ActionCoordinator
  executed_actions_history,
  \* execute_task_instruction: where it stands ("idle" before a call, "loop" at
  \* the loop test, "after_loop" past a break, "done" once returned), its locals
  \* and the value it returned
  pc, screenshot_path, ui_hierarchy_path, current_screen_hash, action_to_execute,
  task_completion_achieved, final_execution_result, result,
  \* lines 98-100: what query_qwen_vision_model last returned, the reply (None: the
  \* call failed) and the scale factors <<width, height>>
  vision_reply, vision_scale,
  \* what the last pass of the loop did: the branch it took ("stall" or "decide"),
  \* the tiers it consulted with what each yielded, the elements the UI
  \* hierarchy tier parsed (line 116; none when it was not consulted), and the
  \* calls it made on the AndroidController
  branch, tiers, ui_elements, transport

vars ==
  <<current_step_number, maximum_allowed_steps, search_initiated, query_entered,
    screen_hash_history, executed_actions_history, pc, screenshot_path,
    ui_hierarchy_path, current_screen_hash, action_to_execute,
    task_completion_achieved, final_execution_result, result, vision_reply,
    vision_scale, branch, tiers, ui_elements, transport>>

\* the messages execute_task_instruction returns
LaunchFailedMessage == <<Word("Failed to launch target application")>>
DefaultCompletionMessage == <<Word("Task completed successfully")>>
StepsMessage(n) ==
  <<[k |-> "W", x |-> n, y |-> 0, w |-> "Task completed in x steps."]>>

\* re.search(r'TASK_COMPLETE:\s*(.+)', action): the place of the leftmost match, 0 if none
CompletionMatch(action) ==
  LET hit(i) == /\ action[i] = Word("TASK_COMPLETE")
                /\ i + 2 <= Len(action)
                /\ action[i + 1] = Word(":")
  IN IF \E i \in 1..Len(action) : hit(i)
     THEN CHOOSE i \in 1..Len(action) : hit(i) /\ \A j \in 1..(i - 1) : ~hit(j)
     ELSE 0

\* lines 145-147: group(1), or the default message
CompletionMessage(action) ==
  LET m == CompletionMatch(action)
  IN IF m # 0 THEN SubSeq(action, m + 2, Len(action)) ELSE DefaultCompletionMessage

\* lines 108-111: an action of the vision tier updates the progress at once
VisionOutcome(action, st) ==
  [action |-> action,
   st |-> IF action # None THEN update_task_progress(action, st) ELSE st]

\* lines 90-111, the vision tier: the action of the reply and the progress flags
VisionTier(qwen_response, width_scale_factor, height_scale_factor, st) ==
  VisionOutcome(IF qwen_response # None
                THEN extract_action_from_response(qwen_response, width_scale_factor,
                                                  height_scale_factor)
                ELSE None,
                st)

\* line 123
SearchTap(best_search_element) ==
  LET label == StrOr(best_search_element.display_text,
                     best_search_element.content_description)
  IN <<Tap(best_search_element.center_x, best_search_element.center_y),
       Word("#"), Word("Search:")>>
     \o (IF label # "" THEN <<Word(label)>> ELSE << >>)

\* lines 118-130: the best search element while the search is not initiated,
\* else (or when there is none) the fallback over all elements
UIOutcome(parsed_ui_elements, search_element_candidates, step, st) ==
  IF search_element_candidates # << >>
  THEN [action |-> SearchTap(search_element_candidates[1]),
        st |-> [st EXCEPT !.search_initiated = TRUE]]
  ELSE [action |-> generate_fallback_action(parsed_ui_elements, step), st |-> st]

\* UIRanked with the search elements ranked whatever the progress flags say
UIRankedAlways(parsed_ui_elements, step, st) ==
  UIOutcome(parsed_ui_elements, identify_search_elements(parsed_ui_elements), step, st)

UIRanked(parsed_ui_elements, step, st) ==
  UIOutcome(parsed_ui_elements,
            IF ~st.search_initiated THEN identify_search_elements(parsed_ui_elements)
            ELSE << >>,
            step, st)

\* lines 115-130, the UI hierarchy tier
UITier(nodes, step, st) == UIRanked(parse_ui_hierarchy(nodes), step, st)

\* FixedTier with the list indexed by the step number itself
FixedTierUnwrapped(step) ==
  IF step + 1 <= Len(get_predefined_fallback_actions)
  THEN get_predefined_fallback_actions[step + 1]
  ELSE None

\* FixedTier indexed by the number of passes already made (step - 1)
FixedTierFromZero(step) ==
  get_predefined_fallback_actions[((step - 1) % Len(get_predefined_fallback_actions)) + 1]

\* lines 133-135, the predefined fallback
FixedTier(step) ==
  get_predefined_fallback_actions[(step % Len(get_predefined_fallback_actions)) + 1]

\* the tiers consulted, in the order of their consultation, with what each yielded
TierLog(shot, v, consult_ui, u, action) ==
  (IF shot THEN <<[tier |-> "vision", yielded |-> v.action # None]>> ELSE << >>)
  \o (IF consult_ui THEN <<[tier |-> "ui", yielded |-> u.action # None]>> ELSE << >>)
  \o (IF u.action = None THEN <<[tier |-> "fixed", yielded |-> action # None]>>
      ELSE << >>)

\* lines 132-136: the predefined fallback when there is still no action
AfterUI(shot, v, consult_ui, u, step) ==
  [action |-> IF u.action = None THEN FixedTier(step) ELSE u.action,
   st |-> u.st,
   tiers |-> TierLog(shot, v, consult_ui, u,
                     IF u.action = None THEN FixedTier(step) ELSE u.action)]

\* AfterVision with the UI hierarchy consulted whatever the vision tier gave
AfterVisionAlwaysUI(shot, ui, nodes, step, v) ==
  AfterUI(shot, v, ui, IF ui THEN UITier(nodes, step, v.st) ELSE v, step)

\* lines 113-130: the UI hierarchy when the vision tier gave no action
AfterVision(shot, ui, nodes, step, v) ==
  AfterUI(shot, v, v.action = None /\ ui,
          IF v.action = None /\ ui THEN UITier(nodes, step, v.st) ELSE v, step)

\* lines 88-136: the tiers consulted in turn.  shot and ui tell whether
\* screenshot_path and ui_hierarchy_path are set.
ChooseAction(shot, ui, qwen_response, width_scale_factor, height_scale_factor, nodes, step, st) ==
  AfterVision(shot, ui, nodes, step,
              IF shot
              THEN VisionTier(qwen_response, width_scale_factor, height_scale_factor, st)
              ELSE [action |-> None, st |-> st])

\* StallStep with the fingerprint recorded before the loop check
StallStepRecorded ==
  /\ branch' = "stall"
  /\ tiers' = << >>
  /\ ui_elements' = << >>
  /\ transport' = <<ScrollCall("down")>>
  /\ pc' = "loop"
  /\ screen_hash_history' = record_screen_hash(current_screen_hash', screen_hash_history)
  /\ UNCHANGED <<search_initiated, query_entered,
                 executed_actions_history, action_to_execute,
                 task_completion_achieved, final_execution_result,
                 vision_reply, vision_scale>>

\* lines 83-85: recovery from a screen loop, then continue
StallStep ==
  /\ branch' = "stall"
  /\ tiers' = << >>
  /\ ui_elements' = << >>
  /\ transport' = <<ScrollCall("down")>>
  /\ pc' = "loop"
  /\ UNCHANGED <<search_initiated, query_entered, screen_hash_history,
                 executed_actions_history, action_to_execute,
                 task_completion_achieved, final_execution_result,
                 vision_reply, vision_scale>>

\* lines 138-148: the chosen action is executed and accounted for
Commit(chosen, executed, progress, explicit_completion) ==
  /\ tiers' = chosen.tiers
  /\ action_to_execute' = chosen.action
  /\ task_completion_achieved' = executed.completed
  /\ executed_actions_history' = executed.history
  /\ transport' = executed.sent
  /\ search_initiated' = progress.search_initiated
  /\ query_entered' = progress.query_entered
  /\ final_execution_result' =
       IF explicit_completion THEN CompletionMessage(chosen.action)
       ELSE final_execution_result
  /\ pc' = IF explicit_completion THEN "after_loop" ELSE "loop"

Execute(chosen) ==
  Commit(chosen,
         execute_parsed_action(chosen.action, executed_actions_history),
         update_task_progress(chosen.action, chosen.st),
         Has(chosen.action, "TASK_COMPLETE"))

\* lines 86-148: the hash is recorded, an action chosen, executed and accounted for
DecideStep(shot, ui, qwen_response, width_scale_factor, height_scale_factor, nodes) ==
  /\ branch' = "decide"
  /\ screen_hash_history' =
       IF shot THEN record_screen_hash(current_screen_hash', screen_hash_history)
       ELSE screen_hash_history
  /\ vision_reply' = IF shot THEN qwen_response ELSE vision_reply
  /\ vision_scale' = IF shot THEN <<width_scale_factor, height_scale_factor>>
                     ELSE vision_scale
  /\ Execute(ChooseAction(shot, ui, qwen_response, width_scale_factor,
                          height_scale_factor, nodes, current_step_number + 1,
                          [search_initiated |-> search_initiated,
                           query_entered |-> query_entered]))
  /\ ui_elements' =
       IF \E i \in 1..Len(tiers') : tiers'[i].tier = "ui"
       THEN parse_ui_hierarchy(nodes) ELSE << >>

UnitScale == <<1, 1>>

\* One pass of the while loop of execute_task_instruction (lines 75-148), with
\* what the device and the vision model answer drawn from the given sets:
\* whether the screenshot and the UI dump are captured, the fingerprint of the
\* screenshot, the reply of the model (None: the call failed), the scale
\* factors <<width, height>> of the compressed image, the nodes of the dump.
Iterate(shots, uis, hashes, replies, scales, snapshots) ==
  /\ pc = "loop"
  /\ ~has_reached_step_limit(current_step_number, maximum_allowed_steps)
  /\ ~task_completion_achieved
  /\ current_step_number' = current_step_number + 1
  /\ UNCHANGED <<maximum_allowed_steps, result>>
  /\ \E shot \in shots, ui \in uis :
       /\ screenshot_path' = shot
       /\ ui_hierarchy_path' = ui
       /\ \E hash \in (IF shot THEN hashes ELSE {current_screen_hash}) :
            /\ current_screen_hash' = hash
            /\ IF shot /\ detect_screen_loop(hash, screen_hash_history)
               THEN StallStep
               ELSE \E qwen_response \in (IF shot THEN replies \cup {None} ELSE {None}) :
                    \E scale \in (IF qwen_response # None THEN scales
                                  ELSE {<<UnitScale, UnitScale>>}) :
                    \E nodes \in (IF ui THEN snapshots ELSE {<< >>}) :
                      DecideStep(shot, ui, qwen_response, scale[1], scale[2], nodes)

\* StartTask with the value launch_application returns ignored
StartTaskLaunchUnchecked(app_known, launch_ok) ==
  /\ pc \in {"idle", "done"}
  /\ current_step_number' = 0
  /\ search_initiated' = FALSE
  /\ query_entered' = FALSE
  /\ screen_hash_history' = << >>
  /\ executed_actions_history' = << >>
  /\ screenshot_path' = FALSE
  /\ ui_hierarchy_path' = FALSE
  /\ current_screen_hash' = 0
  /\ action_to_execute' = None
  /\ task_completion_achieved' = FALSE
  /\ final_execution_result' = None
  /\ vision_reply' = None
  /\ vision_scale' = <<UnitScale, UnitScale>>
  /\ branch' = "start"
  /\ tiers' = << >>
  /\ ui_elements' = << >>
  /\ transport' = IF app_known THEN <<[op |-> "launch", x |-> 0, y |-> 0, w |-> ""]>>
                  ELSE << >>
  /\ pc' = "loop"
  /\ result' = None
  /\ UNCHANGED maximum_allowed_steps

\* StartTask without reset_action_history (line 61)
StartTaskKeepsActions(app_known, launch_ok) ==
  /\ pc \in {"idle", "done"}
  /\ current_step_number' = 0
  /\ search_initiated' = FALSE
  /\ query_entered' = FALSE
  /\ screen_hash_history' = << >>
  /\ executed_actions_history' = executed_actions_history
  /\ screenshot_path' = FALSE
  /\ ui_hierarchy_path' = FALSE
  /\ current_screen_hash' = 0
  /\ action_to_execute' = None
  /\ task_completion_achieved' = FALSE
  /\ final_execution_result' = None
  /\ vision_reply' = None
  /\ vision_scale' = <<UnitScale, UnitScale>>
  /\ branch' = "start"
  /\ tiers' = << >>
  /\ ui_elements' = << >>
  /\ transport' = IF app_known THEN <<[op |-> "launch", x |-> 0, y |-> 0, w |-> ""]>>
                  ELSE << >>
  /\ IF app_known /\ ~launch_ok
     THEN pc' = "done" /\ result' = LaunchFailedMessage
     ELSE pc' = "loop" /\ result' = None
  /\ UNCHANGED maximum_allowed_steps

\* lines 59-73: a call of execute_task_instruction, up to the loop
StartTask(app_known, launch_ok) ==
  /\ pc \in {"idle", "done"}
  /\ current_step_number' = 0
  /\ search_initiated' = FALSE
  /\ query_entered' = FALSE
  /\ screen_hash_history' = << >>
  /\ executed_actions_history' = << >>
  /\ screenshot_path' = FALSE
  /\ ui_hierarchy_path' = FALSE
  /\ current_screen_hash' = 0
  /\ action_to_execute' = None
  /\ task_completion_achieved' = FALSE
  /\ final_execution_result' = None
  /\ vision_reply' = None
  /\ vision_scale' = <<UnitScale, UnitScale>>
  /\ branch' = "start"
  /\ tiers' = << >>
  /\ ui_elements' = << >>
  /\ transport' = IF app_known THEN <<[op |-> "launch", x |-> 0, y |-> 0, w |-> ""]>>
                  ELSE << >>
  /\ IF app_known /\ ~launch_ok
     THEN pc' = "done" /\ result' = LaunchFailedMessage
     ELSE pc' = "loop" /\ result' = None
  /\ UNCHANGED maximum_allowed_steps

\* lines 150-155: past the loop, the result is returned
LoopLeft ==
  IF pc = "loop"
  THEN has_reached_step_limit(current_step_number, maximum_allowed_steps)
       \/ task_completion_achieved
  ELSE pc = "after_loop"

Finish ==
  /\ LoopLeft
  /\ final_execution_result' =
       IF final_execution_result = None THEN StepsMessage(current_step_number)
       ELSE final_execution_result
  /\ result' = final_execution_result'
  /\ pc' = "done"
  /\ UNCHANGED <<current_step_number, maximum_allowed_steps, search_initiated,
                 query_entered, screen_hash_history, executed_actions_history,
                 screenshot_path, ui_hierarchy_path, current_screen_hash,
                 action_to_execute, task_completion_achieved, vision_reply,
                 vision_scale, branch, tiers, ui_elements, transport>>

\* ------------------------------------------------------------ the device

\* the fingerprints of the screens the device shows
Hashes == 1..NumHashes

\* replies of the vision model, one line each unless said otherwise
ReplyTapSearch == << <<Tap(300, 100), Word("#"), Word("search icon")>> >>
ReplyTapPlain == << <<Tap(50, 50)>> >>
ReplyTapProduct == << <<Tap(60, 60), Word("#"), Word("product")>> >>
ReplyType == << <<TypeQ("milk"), Word("#"), Word("query")>> >>
ReplyTypeTapped == << <<TypeQ("chocolate bar"), Word("#"), Word("TAP")>> >>
ReplyScrollDown == << <<Word("SCROLL"), Word("down")>> >>
ReplyScrollUp == << <<Word("SCROLL"), Word("up")>> >>
ReplyComplete == << <<Word("TASK_COMPLETE"), Word(":"), Word("Found 3 items")>> >>
ReplyCompleteBare == << <<Word("TASK_COMPLETE")>> >>
ReplyTapComplete == << <<Tap(300, 100), Word("#"), Word("TASK_COMPLETE")>> >>
ReplyCompleteLower == << <<Word("task_complete")>> >>
ReplyTypeEmpty == << <<TypeEmpty>> >>
ReplyChatter == << <<Word("Sure")>> >>
\* a fenced block: only skipped lines, so the whole text is searched
ReplyFenced == << <<Word("fence")>>, <<Word("#"), Tap(50, 50)>>, <<Word("fence")>> >>

Replies ==
  {ReplyTapSearch, ReplyTapPlain, ReplyTapProduct, ReplyType, ReplyTypeTapped,
   ReplyScrollDown, ReplyScrollUp, ReplyComplete, ReplyCompleteBare,
   ReplyCompleteLower, ReplyTypeEmpty, ReplyTapComplete, ReplyChatter, ReplyFenced}

Scales == {<<UnitScale, UnitScale>>, <<<<2, 1>>, <<3, 2>>>>}

Node(clickable, text, desc, rid, class, bounds) ==
  [clickable |-> clickable, scrollable |-> FALSE, text |-> text, desc |-> desc,
   rid |-> rid, class |-> class, bounds |-> bounds]

NodeSearchBox ==
  Node(TRUE, "", "", "search_box", "android.widget.EditText", <<50, 50, 350, 110>>)
NodeCart == Node(TRUE, "Cart", "", "", "android.widget.Button", <<400, 900, 600, 1000>>)
NodeLabel == Node(FALSE, "Offers", "", "", "android.widget.TextView", <<0, 200, 90, 240>>)
NodeProfile ==
  Node(TRUE, "", "Profile", "", "android.widget.ImageView", <<700, 900, 1000, 1000>>)
NodeFrame == Node(FALSE, "", "", "", "android.widget.FrameLayout", <<0, 0, 1080, 1920>>)

Snapshots ==
  { << >>,
    <<NodeFrame, NodeLabel>>,
    <<NodeFrame, NodeCart>>,
    <<NodeFrame, NodeLabel, NodeSearchBox, NodeCart>> }

\* --------------------------------------------------------- specifications

\* the state after IntelligentMobileAgent.__init__ with a step budget in budgets
Init(budgets) ==
  /\ current_step_number = 0
  /\ maximum_allowed_steps \in budgets
  /\ search_initiated = FALSE
  /\ query_entered = FALSE
  /\ screen_hash_history = << >>
  /\ executed_actions_history = << >>
  /\ pc = "idle"
  /\ screenshot_path = FALSE
  /\ ui_hierarchy_path = FALSE
  /\ current_screen_hash = 0
  /\ action_to_execute = None
  /\ task_completion_achieved = FALSE
  /\ final_execution_result = None
  /\ result = None
  /\ vision_reply = None
  /\ vision_scale = <<UnitScale, UnitScale>>
  /\ branch = "start"
  /\ tiers = << >>
  /\ ui_elements = << >>
  /\ transport = << >>

Start == \E app_known \in BOOLEAN, launch_ok \in BOOLEAN : StartTask(app_known, launch_ok)

\* Spec: every answer of the device and of the model, over short tasks.
TwoScreens == {1, 2}
InitSpec == Init(1..MaxSteps)
Step == Iterate(BOOLEAN, BOOLEAN, TwoScreens, Replies, Scales, Snapshots)
Next == Start \/ Step \/ Finish
Spec == InitSpec /\ [][Next]_vars

\* SpecTaps: long tasks without screenshots, so that every action is a tap of
\* the UI hierarchy tier or a predefined fallback and the action history fills.
TapSnapshots ==
  { <<NodeFrame, NodeCart>>, <<NodeFrame, NodeLabel, NodeSearchBox, NodeCart>> }
InitTaps == Init({MaxStepsLong})
StepTaps == Iterate({FALSE}, BOOLEAN, Hashes, {}, Scales, TapSnapshots)
NextTaps == Start \/ StepTaps \/ Finish
SpecTaps == InitTaps /\ [][NextTaps]_vars

\* SpecScreens: long tasks over NumHashes screens with the vision model down
\* and three clickable elements on every screen, so that both histories fill.
ScreenSnapshots == { <<NodeFrame, NodeSearchBox, NodeCart, NodeProfile>> }
InitScreens == Init({MaxStepsLong})
StepScreens == Iterate({TRUE}, {TRUE}, Hashes, {}, Scales, ScreenSnapshots)
NextScreens == Start \/ StepScreens \/ Finish
SpecScreens == InitScreens /\ [][NextScreens]_vars

\* SpecGuard: short tasks over NumHashes screens where the vision model keeps
\* pointing at one place, with and without a search keyword in the comment, so
\* that the guard rejects a tap of the vision tier; the UI dump, when there is
\* one, holds a search box and nothing else.
ReplyTapHere == << <<Tap(300, 100)>> >>
GuardReplies == {ReplyTapSearch, ReplyTapHere, ReplyType}
GuardSnapshots == { <<NodeSearchBox>> }
InitGuard == Init({MaxSteps})
StepGuard ==
  Iterate({TRUE}, BOOLEAN, Hashes, GuardReplies, {<<UnitScale, UnitScale>>}, GuardSnapshots)
NextGuard == Start \/ StepGuard \/ Finish
SpecGuard == InitGuard /\ [][NextGuard]_vars

\* SpecFixed: long tasks on a device that shows a new screen at every pass (the
\* fingerprint is the number of the pass), with a vision model that fails or
\* answers without an action and a UI dump without a clickable or search
\* element: no stall is declared and every pass falls to the predefined list.
FixedReplies == {ReplyChatter}
FixedSnapshots == { << >>, <<NodeFrame, NodeLabel>> }
InitFixed == Init({MaxStepsLong})
StepFixed ==
  Iterate(BOOLEAN, BOOLEAN, {current_step_number + 1}, FixedReplies, Scales, FixedSnapshots)
NextFixed == Start \/ StepFixed \/ Finish
SpecFixed == InitFixed /\ [][NextFixed]_vars

\* SpecStall: tasks on a device whose screen never changes: every pass takes a
\* screenshot and every screenshot has the same fingerprint.
FrozenScreen == {1}
InitStall == Init(1..MaxStepsLong)
StepStall == Iterate({TRUE}, BOOLEAN, FrozenScreen, Replies, Scales, Snapshots)
NextStall == Start \/ StepStall \/ Finish
SpecStall == InitStall /\ [][NextStall]_vars

\* SpecParser: extract_action_from_response on its own, applied to one reply
\* under one pair of scale factors; its result is then either parsed again with
\* the scale factors (1,1) or handed to execute_parsed_action.
ReplyTapExample == << <<Tap(100, 200)>> >>
ReplyTapThenScroll == << <<Tap(100, 200)>>, <<Word("SCROLL"), Word("down")>> >>
ReplyScrollThenTap == << <<Word("SCROLL"), Word("up")>>, <<Tap(100, 200)>> >>
ReplyChatterThenTap == << <<Word("Sure")>>, <<Tap(100, 200), Word("#"), Word("product")>> >>
ReplyHashTapThenScroll ==
  << <<Word("#"), Tap(50, 50)>>, <<Word("SCROLL"), Word("up")>> >>
ReplyHashScrollUp == << <<Word("#"), Word("SCROLL"), Word("up")>> >>
ReplyFenceScrollUp == << <<Word("fence"), Word("SCROLL"), Word("up")>> >>
ReplyHashComplete == << <<Word("Sure")>>, <<Word("#"), Word("TASK_COMPLETE")>> >>
ReplyHashType == << <<Word("#"), TypeQ("milk")>> >>
ReplyHashTypeBroken == << <<Word("#"), TypeOpen("milk")>>, <<QuoteEnd("bread")>> >>
ReplyHashNote == << <<Word("#"), Word("Sure")>>, <<Word("fence")>> >>
ReplyScrollDownPopup ==
  << <<Word("SCROLL"), Word("down"), Word("#"), Word("popup")>> >>
ReplyScrollUpNote == << <<Word("SCROLL"), Word("up"), Word("#"), Word("product")>> >>
ReplyScrollBare == << <<Word("scroll")>> >>

ParserReplies ==
  { ReplyTapExample, ReplyTapSearch, ReplyTapThenScroll, ReplyScrollThenTap,
    ReplyChatterThenTap, ReplyHashTapThenScroll, ReplyFenced, ReplyHashScrollUp,
    ReplyFenceScrollUp, ReplyHashComplete, ReplyHashType, ReplyHashTypeBroken,
    ReplyHashNote, ReplyScrollDown, ReplyScrollUp, ReplyScrollDownPopup,
    ReplyScrollUpNote, ReplyScrollBare, ReplyType, ReplyTypeEmpty, ReplyComplete,
    ReplyCompleteLower, ReplyTapComplete, ReplyChatter }

ParserScales ==
  { <<UnitScale, UnitScale>>, <<<<2, 1>>, <<3, 2>>>>, <<<<23, 10>>, <<3, 2>>>> }

InitParser ==
  /\ current_step_number = 0
  /\ maximum_allowed_steps = MaxSteps
  /\ search_initiated = FALSE
  /\ query_entered = FALSE
  /\ screen_hash_history = << >>
  /\ executed_actions_history = << >>
  /\ pc = "reply"
  /\ screenshot_path = TRUE
  /\ ui_hierarchy_path = FALSE
  /\ current_screen_hash = 0
  /\ action_to_execute = None
  /\ task_completion_achieved = FALSE
  /\ final_execution_result = None
  /\ result = None
  /\ vision_reply \in ParserReplies
  /\ vision_scale \in ParserScales
  /\ branch = "parser"
  /\ tiers = << >>
  /\ ui_elements = << >>
  /\ transport = << >>

\* action = extract_action_from_response(reply, width_scale, height_scale)
ParseReply ==
  /\ pc = "reply"
  /\ action_to_execute' =
       extract_action_from_response(vision_reply, vision_scale[1], vision_scale[2])
  /\ pc' = "parsed"
  /\ UNCHANGED <<current_step_number, maximum_allowed_steps, search_initiated,
                 query_entered, screen_hash_history, executed_actions_history,
                 screenshot_path, ui_hierarchy_path, current_screen_hash,
                 task_completion_achieved, final_execution_result, result,
                 vision_reply, vision_scale, branch, tiers, ui_elements, transport>>

\* extract_action_from_response(action, 1.0, 1.0): the action is the reply now
ParseAgain ==
  /\ pc = "parsed"
  /\ action_to_execute # None
  /\ vision_reply' = SplitLines(action_to_execute)
  /\ vision_scale' = <<UnitScale, UnitScale>>
  /\ action_to_execute' =
       extract_action_from_response(SplitLines(action_to_execute), UnitScale, UnitScale)
  /\ pc' = "parsed_again"
  /\ UNCHANGED <<current_step_number, maximum_allowed_steps, search_initiated,
                 query_entered, screen_hash_history, executed_actions_history,
                 screenshot_path, ui_hierarchy_path, current_screen_hash,
                 task_completion_achieved, final_execution_result, result,
                 branch, tiers, ui_elements, transport>>

\* execute_parsed_action(action) on a new ActionCoordinator
ExecuteParsed ==
  /\ pc = "parsed"
  /\ action_to_execute # None
  /\ LET executed == execute_parsed_action(action_to_execute, executed_actions_history)
     IN /\ task_completion_achieved' = executed.completed
        /\ executed_actions_history' = executed.history
        /\ transport' = executed.sent
  /\ pc' = "executed"
  /\ UNCHANGED <<current_step_number, maximum_allowed_steps, search_initiated,
                 query_entered, screen_hash_history, screenshot_path,
                 ui_hierarchy_path, current_screen_hash, action_to_execute,
                 final_execution_result, result, vision_reply, vision_scale,
                 branch, tiers, ui_elements>>

NextParser == ParseReply \/ ParseAgain \/ ExecuteParsed
SpecParser == InitParser /\ [][NextParser]_vars

\* SpecRanker: identify_search_elements on its own, applied to the elements
\* parse_ui_hierarchy makes of a UI dump of up to MaxElements nodes.  The nodes
\* score 15, 1, 1 and 0.
NodeBanner ==
  Node(FALSE, "Offers", "", "", "android.widget.TextView", <<0, 300, 1080, 500>>)
RankNodes == {NodeSearchBox, NodeProfile, NodeBanner, NodeCart}
RankSnapshots == UNION {[1..n -> RankNodes] : n \in 0..MaxElements}

InitRanker ==
  /\ current_step_number = 0
  /\ maximum_allowed_steps = MaxSteps
  /\ search_initiated = FALSE
  /\ query_entered = FALSE
  /\ screen_hash_history = << >>
  /\ executed_actions_history = << >>
  /\ pc = "elements"
  /\ screenshot_path = FALSE
  /\ ui_hierarchy_path = TRUE
  /\ current_screen_hash = 0
  /\ action_to_execute = None
  /\ task_completion_achieved = FALSE
  /\ final_execution_result = None
  /\ result = None
  /\ vision_reply = None
  /\ vision_scale = <<UnitScale, UnitScale>>
  /\ branch = "ranker"
  /\ tiers = << >>
  /\ \E nodes \in RankSnapshots : ui_elements = parse_ui_hierarchy(nodes)
  /\ transport = << >>

\* search_element_candidates = identify_search_elements(parsed_ui_elements)
RankCandidates ==
  /\ pc = "elements"
  /\ ui_elements' = identify_search_elements(ui_elements)
  /\ pc' = "ranked"
  /\ UNCHANGED <<current_step_number, maximum_allowed_steps, search_initiated,
                 query_entered, screen_hash_history, executed_actions_history,
                 screenshot_path, ui_hierarchy_path, current_screen_hash,
                 action_to_execute, task_completion_achieved,
                 final_execution_result, result, vision_reply, vision_scale,
                 branch, tiers, transport>>

NextRanker == RankCandidates
SpecRanker == InitRanker /\ [][NextRanker]_vars

\* ----------------------------------------------------------------- claims

\* The kind of an action line, by the priority of the action grammar
\* (TAP, then TYPE, then SCROLL, then TASK_COMPLETE).
ActionKind(action) ==
  IF TapMatch(action) # 0 THEN "Tap"
  ELSE IF TypeOpenMatch(action) THEN "Type"
  ELSE IF HasLower(action, "scroll") THEN "Scroll"
  ELSE IF HasLower(action, "task_complete") THEN "Complete"
  ELSE "Other"

\* the identity "TAP(x,y)" of a tap action
TapIdentity(action) == <<action[TapMatch(action)].x, action[TapMatch(action)].y>>

\* a step of the model that is one pass of the loop
IterateStep == pc = "loop" /\ pc' \in {"loop", "after_loop"}
\* a pass of the loop that declared a stall, and one that did not
StalledStep == IterateStep /\ branch' = "stall"
DecidedStep == IterateStep /\ branch' = "decide"

\* the phase the pair of progress flags stands for
Phase == IF query_entered THEN "QueryEntered"
         ELSE IF search_initiated THEN "SearchStarted"
         ELSE "SearchPending"

PhaseRank(phase) ==
  CASE phase = "SearchPending" -> 0
    [] phase = "SearchStarted" -> 1
    [] phase = "QueryEntered" -> 2

\* C1: every pass of the loop advances the step counter by exactly 1 and keeps
\* 0 <= step <= max_steps, and a pass that produces no Complete action leaves
\* the loop exactly when step = max_steps.
C1_StepBudget ==
  [][IterateStep =>
       /\ current_step_number' = current_step_number + 1
       /\ 0 <= current_step_number'
       /\ current_step_number' <= maximum_allowed_steps'
       /\ (branch' = "stall" \/ ActionKind(action_to_execute') # "Complete")
          => (LoopLeft' <=> current_step_number' = maximum_allowed_steps')]_vars

\* C1, the part that holds of the code: the step counter advances by exactly 1
\* in every pass, stays within 0..max_steps, and a pass whose action does not
\* hold the text TASK_COMPLETE in any case leaves the loop exactly when
\* step = max_steps.
C1_StepBudgetUnmarked ==
  [][IterateStep =>
       /\ current_step_number' = current_step_number + 1
       /\ 0 <= current_step_number'
       /\ current_step_number' <= maximum_allowed_steps'
       /\ (branch' = "stall" \/ ~HasLower(action_to_execute', "task_complete"))
          => (LoopLeft' <=> current_step_number' = maximum_allowed_steps')]_vars

\* the place of a tier in the order vision, UI hierarchy, predefined fallback
TierRank(tier) ==
  CASE tier = "vision" -> 1
    [] tier = "ui" -> 2
    [] tier = "fixed" -> 3

\* C2: on a pass without a stall the tiers are consulted in the order vision,
\* UI hierarchy, predefined fallback; a tier is consulted only when no tier
\* before it yielded an action, and the last tier consulted is the first one
\* that yields.  The vision tier's action is the one executed when it yields.
C2_TierOrder ==
  branch = "decide" =>
    /\ Len(tiers) >= 1
    /\ \A i, j \in 1..Len(tiers) :
         i < j => TierRank(tiers[i].tier) < TierRank(tiers[j].tier)
    /\ \A i \in 1..Len(tiers) : tiers[i].yielded <=> i = Len(tiers)
    /\ \A i \in 1..Len(tiers) :
         tiers[i].tier = "ui" => ui_hierarchy_path
    /\ \A i \in 1..Len(tiers) :
         tiers[i].tier = "vision" => screenshot_path
    /\ tiers[Len(tiers)].tier = "fixed" =>
         \E n \in 1..Len(get_predefined_fallback_actions) :
            action_to_execute = get_predefined_fallback_actions[n]

\* C2 witness: all three tiers were consulted and only the last yielded
C2_Witness ==
  /\ branch = "decide"
  /\ tiers = <<[tier |-> "vision", yielded |-> FALSE],
               [tier |-> "ui", yielded |-> FALSE],
               [tier |-> "fixed", yielded |-> TRUE]>>

\* C3: a pass without a stall hands a non-null action to the coordinator
\* whatever failed (screenshot, UI dump, vision call, parse), and the task goes
\* on: nothing is returned, and the loop is left by a break only for an action
\* with the completion marker.
C3_ActionNeverNull ==
  [][DecidedStep =>
       /\ action_to_execute' # None
       /\ Len(action_to_execute') > 0
       /\ result' = None
       /\ pc' = "after_loop" => Has(action_to_execute', "TASK_COMPLETE")]_vars

\* C3 witness: neither the screenshot nor the UI dump was captured and the
\* predefined fallback gave the action, with the task still running
C3_Witness ==
  /\ branch = "decide"
  /\ ~screenshot_path /\ ~ui_hierarchy_path
  /\ tiers = <<[tier |-> "fixed", yielded |-> TRUE]>>
  /\ action_to_execute # None
  /\ pc = "loop"

\* how often the identity occurs among the last 4 entries of the action history
RecentCount(identity) ==
  Cardinality({i \in 1..Len(executed_actions_history) :
                 /\ i > Len(executed_actions_history) - 4
                 /\ executed_actions_history[i] = identity})

\* the tap of the action is what was sent to the device
TapSent(action) ==
  <<[op |-> "tap", x |-> TapIdentity(action)[1], y |-> TapIdentity(action)[2], w |-> ""]>>

\* C4 (amended): a candidate tap whose identity occurs at least 2 times among
\* the last 4 entries of the action history is not sent, a scroll down is sent
\* instead and the history is left unchanged; a candidate tap whose identity
\* occurs fewer than 2 times there is admitted and sent, whatever other
\* identity the history rejects in the same state.
C4_LoopGuard ==
  [][DecidedStep /\ ActionKind(action_to_execute') = "Tap" =>
       IF RecentCount(TapIdentity(action_to_execute')) >= 2
       THEN /\ transport' = <<[op |-> "scroll", x |-> 0, y |-> 0, w |-> "down"]>>
            /\ executed_actions_history' = executed_actions_history
       ELSE /\ transport' = TapSent(action_to_execute')
            /\ executed_actions_history' # executed_actions_history
            /\ executed_actions_history'[Len(executed_actions_history')]
                 = TapIdentity(action_to_execute')]_vars

\* C4 witness: a tap was rejected (a scroll down sent in its place) in a state
\* whose history holds its identity twice among the last 4 entries
C4_Witness ==
  /\ branch = "decide"
  /\ ActionKind(action_to_execute) = "Tap"
  /\ RecentCount(TapIdentity(action_to_execute)) >= 2
  /\ transport = <<[op |-> "scroll", x |-> 0, y |-> 0, w |-> "down"]>>

\* C4 as stated: a rejected identity is not sent, and in a state where the
\* history rejects some identity every tap with a different identity is
\* admitted and sent.
C4_OtherIdentityAdmitted ==
  [][DecidedStep /\ ActionKind(action_to_execute') = "Tap" =>
       /\ RecentCount(TapIdentity(action_to_execute')) >= 2
          => /\ transport' = <<[op |-> "scroll", x |-> 0, y |-> 0, w |-> "down"]>>
             /\ executed_actions_history' = executed_actions_history
       /\ (\E i \in 1..Len(executed_actions_history) :
             /\ RecentCount(executed_actions_history[i]) >= 2
             /\ executed_actions_history[i] # TapIdentity(action_to_execute'))
          => transport' = TapSent(action_to_execute')]_vars

\* the call on the device that a Type, Scroll or Complete action stands for
OwnCall(action) ==
  IF TypeMatch(action) # 0
  THEN <<[op |-> "type", x |-> 0, y |-> 0, w |-> action[TypeMatch(action)].w]>>
  ELSE IF HasLower(action, "scroll")
  THEN <<[op |-> "scroll", x |-> 0, y |-> 0,
          w |-> IF HasLower(action, "up") THEN "up" ELSE "down"]>>
  ELSE << >>

\* C5: a Type, Scroll or Complete action is never replaced by the guard,
\* whatever the history: its own call is what is sent to the device (none for
\* Complete), and the action history is left unchanged.
C5_NonTapBypass ==
  [][DecidedStep /\ ActionKind(action_to_execute') \in {"Type", "Scroll", "Complete"} =>
       /\ executed_actions_history' = executed_actions_history
       /\ transport' = OwnCall(action_to_execute')
       /\ ActionKind(action_to_execute') = "Complete" => transport' = << >>]_vars

\* C5 witness: a Type action was sent as typed text while the history held the
\* same tap twice
C5_Witness ==
  /\ branch = "decide"
  /\ ActionKind(action_to_execute) = "Type"
  /\ transport = OwnCall(action_to_execute)
  /\ transport # << >>
  /\ \E i \in 1..Len(executed_actions_history) :
        RecentCount(executed_actions_history[i]) >= 2

\* a bounded FIFO: v joins at the end and the oldest entry leaves when full
FifoPush(queue, v, cap) ==
  IF Len(queue) < cap THEN Append(queue, v) ELSE Append(Tail(queue), v)

\* the pass admitted its tap: the tap itself was sent to the device
TapAdmitted ==
  /\ branch' = "decide"
  /\ ActionKind(action_to_execute') = "Tap"
  /\ transport' = TapSent(action_to_execute')

\* C6: both histories are bounded FIFOs.  The action history never holds more
\* than 10 entries, an admitted tap's identity joins it at the end with the
\* oldest entry evicted when it is full, and nothing else changes it; the
\* screen-hash history never holds more than 5 entries, a recorded fingerprint
\* joins it at the end with the oldest evicted when it is full, and nothing
\* else changes it.
C6_BoundedFifos ==
  [][IterateStep =>
       /\ Len(executed_actions_history') <= 10
       /\ Len(screen_hash_history') <= 5
       /\ executed_actions_history' =
            IF TapAdmitted
            THEN FifoPush(executed_actions_history, TapIdentity(action_to_execute'), 10)
            ELSE executed_actions_history
       /\ screen_hash_history' =
            IF branch' = "decide" /\ screenshot_path'
            THEN FifoPush(screen_hash_history, current_screen_hash', 5)
            ELSE screen_hash_history]_vars

\* C6 witness: both histories are full and entries were evicted.  In SpecScreens
\* the first pass of a task admits the search tap (200,80), and every pass that
\* records no fingerprint admits no tap: a full action history that no longer
\* starts with (200,80) has lost it to the 11th admitted tap, by when 11
\* fingerprints were recorded.
C6_Witness ==
  /\ Len(executed_actions_history) = 10
  /\ executed_actions_history[1] # <<200, 80>>
  /\ Len(screen_hash_history) = 5
  /\ branch = "decide"
  /\ transport = TapSent(action_to_execute)

\* the fingerprint is among the last 3 entries of the screen-hash history
InLastThree(hash) ==
  \E i \in 1..Len(screen_hash_history) :
     /\ i > Len(screen_hash_history) - 3
     /\ screen_hash_history[i] = hash

C7_OutsideWindow ==
  /\ branch = "decide"
  /\ screenshot_path
  /\ Len(screen_hash_history) = 5
  /\ current_screen_hash = screen_hash_history[1]
  /\ screen_hash_history[5] = screen_hash_history[1]

\* C8: a stalled pass sends exactly one scroll down and does nothing else: no
\* tier is consulted, and the screen-hash history, the action history and the
\* progress flags are unchanged; the step counter advances by 1.
C8_StallFrame ==
  [][StalledStep =>
       /\ transport' = <<[op |-> "scroll", x |-> 0, y |-> 0, w |-> "down"]>>
       /\ tiers' = << >>
       /\ screen_hash_history' = screen_hash_history
       /\ executed_actions_history' = executed_actions_history
       /\ search_initiated' = search_initiated
       /\ query_entered' = query_entered
       /\ action_to_execute' = action_to_execute
       /\ task_completion_achieved' = task_completion_achieved
       /\ final_execution_result' = final_execution_result
       /\ current_step_number' = current_step_number + 1]_vars

\* C8 witness: a stall was declared after an action had been admitted and the
\* search initiated
C8_Witness ==
  /\ branch = "stall"
  /\ transport = <<[op |-> "scroll", x |-> 0, y |-> 0, w |-> "down"]>>
  /\ Len(executed_actions_history) >= 1
  /\ search_initiated

\* the phase as the prompt generation reads it
PromptPhase == generate_context_aware_prompt(search_initiated, query_entered)

\* C9: within a task the phase never moves backward in the order SearchPending,
\* SearchStarted, QueryEntered, whether read from the flags or as the prompt
\* generation reads it, and once QueryEntered it stays QueryEntered.
C9_PhaseMonotone ==
  [][(pc = "loop" \/ pc = "after_loop") =>
       /\ PhaseRank(Phase') >= PhaseRank(Phase)
       /\ (Phase = "QueryEntered" => Phase' = "QueryEntered")
       /\ PhaseRank(PromptPhase') >= PhaseRank(PromptPhase)
    ]_vars

\* C9 witness: a search tap was executed when the query had been entered, and
\* the phase is still QueryEntered
C9_Witness ==
  /\ branch = "decide"
  /\ ActionKind(action_to_execute) = "Tap"
  /\ \E search_keyword \in SearchKeywords : HasLower(action_to_execute, search_keyword)
  /\ ~Has(action_to_execute, "TYPE")
  /\ Phase = "QueryEntered"

\* C10: after a Type action is processed (its text was typed on the device)
\* the phase is QueryEntered, and it is QueryEntered as the prompt generation
\* and the UI hierarchy tier's branch (not search_initiated) read it.
C10_TypeEntersQuery ==
  (/\ branch = "decide"
   /\ ActionKind(action_to_execute) = "Type"
   /\ TypeMatch(action_to_execute) # 0
   /\ transport = OwnCall(action_to_execute)) =>
    /\ Phase = "QueryEntered"
    /\ PromptPhase = "QueryEntered"
    /\ search_initiated

\* the reply of the vision model is one tap line with a search keyword in its
\* comment
SearchTapReply(reply) ==
  /\ reply # None
  /\ Len(reply) = 1
  /\ reply[1][1].k = "TAP"
  /\ Has(reply[1], "#")
  /\ \E search_keyword \in SearchKeywords : HasLower(AfterHash(reply[1]), search_keyword)

\* C11: in phase SearchPending with an empty action history and no stall, a
\* vision reply that is a tap at (x,y) with a search keyword in its comment,
\* under the scale (1,1), makes the pass send a tap at exactly (x,y) and leaves
\* the phase SearchStarted.
C11_SearchTapScenario ==
  [][(/\ DecidedStep
      /\ Phase = "SearchPending"
      /\ executed_actions_history = << >>
      /\ screenshot_path'
      /\ SearchTapReply(vision_reply')
      /\ vision_scale' = <<UnitScale, UnitScale>>) =>
       /\ transport' = <<[op |-> "tap", x |-> vision_reply'[1][1].x,
                          y |-> vision_reply'[1][1].y, w |-> ""]>>
       /\ Phase' = "SearchStarted"
       /\ PromptPhase' = "SearchStarted"
    ]_vars

\* C11 witness: step 1, reply "TAP (300,100) # search icon", scale (1,1): the
\* tap (300,100) was sent and the phase is SearchStarted
C11_Witness ==
  /\ current_step_number = 1
  /\ branch = "decide"
  /\ vision_reply = ReplyTapSearch
  /\ vision_scale = <<UnitScale, UnitScale>>
  /\ transport = <<[op |-> "tap", x |-> 300, y |-> 100, w |-> ""]>>
  /\ executed_actions_history = << <<300, 100>> >>
  /\ Phase = "SearchStarted"

\* the guard rejected the tap the pass had chosen: a scroll down went instead
TapRejected ==
  /\ branch' = "decide"
  /\ ActionKind(action_to_execute') = "Tap"
  /\ transport' = <<[op |-> "scroll", x |-> 0, y |-> 0, w |-> "down"]>>

\* C12: a tap that the guard rejects and replaces by a scroll down leaves the
\* phase unchanged, even when its comment contains a search keyword.
C12_RejectedTapKeepsPhase ==
  [][(IterateStep /\ TapRejected) =>
       /\ search_initiated' = search_initiated
       /\ query_entered' = query_entered
    ]_vars

\* the pass chose a Complete action
CompleteChosen == branch' = "decide" /\ ActionKind(action_to_execute') = "Complete"

\* the message after the completion marker "TASK_COMPLETE:", or the default one
ExpectedCompletionMessage(action) ==
  IF Len(action) >= 3 /\ action[2] = Word(":")
  THEN SubSeq(action, 3, Len(action))
  ELSE <<Word("Task completed successfully")>>

\* C13: when a Complete action is chosen the task ends in that pass, no tap,
\* type or scroll is sent in it, and the result of the task is exactly the
\* message following the completion marker, or the default completion message
\* when there is none.
C13_CompleteEndsTask ==
  [][/\ (IterateStep /\ CompleteChosen) =>
          /\ transport' = << >>
          /\ LoopLeft'
          /\ final_execution_result' = ExpectedCompletionMessage(action_to_execute')
     /\ (pc # "done" /\ pc' = "done" /\ branch = "decide"
         /\ ActionKind(action_to_execute) = "Complete") =>
          result' = ExpectedCompletionMessage(action_to_execute)
    ]_vars

\* C13 with the marker in upper case only, as line 145 tests it
C13_UpperCaseCompleteEndsTask ==
  [][/\ (IterateStep /\ CompleteChosen /\ Has(action_to_execute', "TASK_COMPLETE")) =>
          /\ transport' = << >>
          /\ LoopLeft'
          /\ final_execution_result' = ExpectedCompletionMessage(action_to_execute')
     /\ (pc # "done" /\ pc' = "done" /\ branch = "decide"
         /\ ActionKind(action_to_execute) = "Complete"
         /\ Has(action_to_execute, "TASK_COMPLETE")) =>
          result' = ExpectedCompletionMessage(action_to_execute)
    ]_vars

\* C14: a pass whose chosen action is a Tap, a Type or a Scroll, whatever its
\* comment contains and whether or not the guard replaced it, never ends the
\* task and never produces a completion message.
C14_OnlyCompleteCompletes ==
  [][(DecidedStep /\ ActionKind(action_to_execute') \in {"Tap", "Type", "Scroll"}) =>
       /\ pc' = "loop"
       /\ ~task_completion_achieved'
       /\ final_execution_result' = None
    ]_vars

\* no tap, type or scroll among the calls made on the device
NoDeviceAction(calls) ==
  \A i \in 1..Len(calls) : calls[i].op \notin {"tap", "type", "scroll"}

\* C15: the result of a task is always a completion message, the exhaustion
\* message carrying the step count, or the launch-failure message; and when the
\* launch of the application reports failure the result is the launch-failure
\* message, the step counter stays 0 and no tap, type or scroll is sent.
C15_ResultForms ==
  [][/\ pc' = "done" =>
          \/ result' = <<Word("Failed to launch target application")>>
          \/ result' = <<[k |-> "W", x |-> current_step_number', y |-> 0,
                          w |-> "Task completed in x steps."]>>
          \/ /\ Has(action_to_execute', "TASK_COMPLETE")
             /\ result' = ExpectedCompletionMessage(action_to_execute')
     /\ StartTask(TRUE, FALSE) =>
          /\ pc' = "done"
          /\ result' = <<Word("Failed to launch target application")>>
     /\ result' = <<Word("Failed to launch target application")>> =>
          /\ pc' = "done"
          /\ current_step_number' = 0
          /\ NoDeviceAction(transport')
          /\ executed_actions_history' = << >>
    ]_vars

\* C15 witness: a task whose launch failed has returned
C15_Witness ==
  /\ pc = "done"
  /\ result = <<Word("Failed to launch target application")>>
  /\ current_step_number = 0
  /\ transport = <<[op |-> "launch", x |-> 0, y |-> 0, w |-> ""]>>

\* the pass consulted the predefined list, the tiers before it having yielded
\* nothing
FixedTierUsed ==
  /\ branch' = "decide"
  /\ tiers' # << >>
  /\ tiers'[Len(tiers')].tier = "fixed"
  /\ \A i \in 1..(Len(tiers') - 1) : ~tiers'[i].yielded

\* the entry at a position (from 0) of the predefined list
FallbackAt(position) == get_predefined_fallback_actions[position + 1]

\* C16 (as claimed): when the vision and the UI tiers yield nothing on the
\* first 4 passes of a task and no stall is declared, the predefined list is
\* used at the positions 0, 1, 2, 3 in that order.
C16_FallbackFromZero ==
  [][(IterateStep /\ current_step_number' <= 4) =>
       /\ FixedTierUsed
       /\ action_to_execute' = FallbackAt(current_step_number' - 1)
    ]_vars

\* C16 (amended): when the vision and the UI tiers yield nothing and no stall
\* is declared, pass number n uses the position n mod 4 of the predefined list:
\* the first 4 passes of a task use the positions 1, 2, 3, 0 in that order.
C16_FallbackByStep ==
  [][IterateStep =>
       /\ FixedTierUsed
       /\ action_to_execute' = FallbackAt(current_step_number' % 4)
       /\ current_step_number' = 1 => action_to_execute' = FallbackAt(1)
       /\ current_step_number' = 2 => action_to_execute' = FallbackAt(2)
       /\ current_step_number' = 3 => action_to_execute' = FallbackAt(3)
       /\ current_step_number' = 4 => action_to_execute' = FallbackAt(0)
    ]_vars

\* C16 witness: pass 4 used position 0, TAP (540,150), after the passes 2 and 3
\* had tapped (100,300) and (540,400)
C16_Witness ==
  /\ current_step_number = 4
  /\ branch = "decide"
  /\ tiers[Len(tiers)].tier = "fixed"
  /\ action_to_execute = <<Tap(540, 150)>>
  /\ executed_actions_history = << <<100, 300>>, <<540, 400>>, <<540, 150>> >>
  /\ transport = <<[op |-> "tap", x |-> 540, y |-> 150, w |-> ""]>>

\* the last pass consulted the UI hierarchy tier
UIConsulted == \E i \in 1..Len(tiers) : tiers[i].tier = "ui"

\* the place in the parsed elements of the top-ranked search candidate: the
\* first element of the highest score, when that score is above 0; else 0
TopSearchCandidate(elements) ==
  IF \E i \in 1..Len(elements) : relevance_score(elements[i]) > 0
  THEN CHOOSE i \in 1..Len(elements) :
         /\ \A j \in 1..Len(elements) :
              relevance_score(elements[j]) <= relevance_score(elements[i])
         /\ \A j \in 1..(i - 1) :
              relevance_score(elements[j]) < relevance_score(elements[i])
  ELSE 0

\* the action is the search tap at the center of the element: "TAP (x,y) #
\* Search: label"
IsSearchTapAt(action, element) ==
  /\ Len(action) >= 3
  /\ action[1] = Tap(element.center_x, element.center_y)
  /\ action[2] = Word("#")
  /\ action[3] = Word("Search:")

\* what follows the UI hierarchy tier when generate_fallback_action is run: its
\* tap, or the predefined fallback when it gives none
FallbackRun(elements, step) ==
  IF generate_fallback_action(elements, step) # None
  THEN generate_fallback_action(elements, step)
  ELSE FallbackAt(step % 4)

\* C17 (as claimed): in phase SearchPending the action of the UI hierarchy tier
\* is the tap at the center of the top-ranked search candidate and
\* generate_fallback_action is not run; a tap of generate_fallback_action comes
\* only when the phase is not SearchPending.
C17_SearchPendingNeverFallsBack ==
  [][(DecidedStep /\ UIConsulted') =>
       /\ (Phase = "SearchPending" /\ TopSearchCandidate(ui_elements') # 0) =>
            IsSearchTapAt(action_to_execute',
                          ui_elements'[TopSearchCandidate(ui_elements')])
       /\ (/\ generate_fallback_action(ui_elements', current_step_number') # None
           /\ action_to_execute'
                = generate_fallback_action(ui_elements', current_step_number')) =>
            Phase # "SearchPending"
    ]_vars

\* C17 (amended): when the UI hierarchy tier is consulted with search_initiated
\* false and there is a search candidate, its action is the tap at the center
\* of the top-ranked candidate and generate_fallback_action is not run; when
\* search_initiated is true, or there is no search candidate, the action is
\* that of generate_fallback_action over all the elements.
C17_SearchTapOrFallback ==
  [][(DecidedStep /\ UIConsulted') =>
       IF ~search_initiated /\ TopSearchCandidate(ui_elements') # 0
       THEN /\ IsSearchTapAt(action_to_execute',
                             ui_elements'[TopSearchCandidate(ui_elements')])
            /\ search_initiated'
       ELSE action_to_execute' = FallbackRun(ui_elements', current_step_number')
    ]_vars

\* C17 witness: with search_initiated true the tier passed by the search box,
\* ranked first, and took the tap generate_fallback_action gives
C17_Witness ==
  /\ branch = "decide"
  /\ UIConsulted
  /\ TopSearchCandidate(ui_elements) # 0
  /\ ~IsSearchTapAt(action_to_execute, ui_elements[TopSearchCandidate(ui_elements)])
  /\ action_to_execute = generate_fallback_action(ui_elements, current_step_number)

\* C17, the other branch reached: the search tap at the center (200,80) of the
\* search box, ranked first among two candidates
C17_SearchTapTaken ==
  /\ branch = "decide"
  /\ UIConsulted
  /\ Len(ui_elements) >= 2
  /\ IsSearchTapAt(action_to_execute, ui_elements[TopSearchCandidate(ui_elements)])
  /\ transport = <<[op |-> "tap", x |-> 200, y |-> 80, w |-> ""]>>

\* the elements are one EditText with the resource id "search_box", centered
\* at (200,80), of size 300x60
OnlySearchBox(elements) ==
  /\ Len(elements) = 1
  /\ elements[1].element_class = "android.widget.EditText"
  /\ elements[1].resource_id = "search_box"
  /\ elements[1].center_x = 200 /\ elements[1].center_y = 80
  /\ elements[1].element_width = 300 /\ elements[1].element_height = 60

C18_SearchTapAtStepTwo ==
  /\ current_step_number = 2
  /\ branch = "decide"
  /\ screenshot_path
  /\ vision_reply = None
  /\ OnlySearchBox(ui_elements)
  /\ IsSearchTapAt(action_to_execute, ui_elements[1])
  /\ transport = <<[op |-> "tap", x |-> 200, y |-> 80, w |-> ""]>>

\* C19: the state of a task is initialised anew at every start of a task: from
\* any final state of a previous task on the same engine, the new task begins
\* with the step counter 0, the phase SearchPending and both histories empty,
\* and with nothing else left of the previous task for its decisions to read.
C19_TaskStateReset ==
  [][(pc = "idle" \/ pc = "done") =>
       /\ current_step_number' = 0
       /\ Phase' = "SearchPending"
       /\ PromptPhase' = "SearchPending"
       /\ screen_hash_history' = << >>
       /\ executed_actions_history' = << >>
       /\ ~task_completion_achieved'
       /\ final_execution_result' = None
       /\ action_to_execute' = None
       /\ vision_reply' = None
       /\ tiers' = << >> /\ ui_elements' = << >>
       /\ NoDeviceAction(transport')
       /\ maximum_allowed_steps' = maximum_allowed_steps
    ]_vars

\* C19 witness: a final state of a task that left the step counter, the phase
\* and both histories changed; the engine is ready for the next task
C19_Witness ==
  /\ pc = "done"
  /\ current_step_number > 1
  /\ Phase = "QueryEntered"
  /\ Len(screen_hash_history) >= 1
  /\ Len(executed_actions_history) >= 1
  /\ result # None

\* C19, the start itself reached: a task begins in the initialised state
C19_TaskStarted ==
  /\ pc = "loop"
  /\ branch = "start"
  /\ current_step_number = 0
  /\ Phase = "SearchPending"
  /\ screen_hash_history = << >>
  /\ executed_actions_history = << >>

\* the tier whose action the last pass took: the last one it consulted
YieldingTier == IF tiers = << >> THEN "none" ELSE tiers[Len(tiers)].tier

\* the first TAP (x,y) in the text of a reply
ReplyTap(reply) == Flatten(reply)[TapMatch(Flatten(reply))]

\* what the device receives for one tap at (x,y)
OneTapAt(x, y) == <<[op |-> "tap", x |-> x, y |-> y, w |-> ""]>>

C20_UnscaledUITap ==
  /\ branch = "decide"
  /\ YieldingTier = "ui"
  /\ vision_reply = ReplyChatter
  /\ vision_scale = <<<<2, 1>>, <<3, 2>>>>
  /\ transport = OneTapAt(200, 80)

C20_UnscaledFixedTap ==
  /\ branch = "decide"
  /\ YieldingTier = "fixed"
  /\ vision_reply = ReplyChatter
  /\ vision_scale = <<<<2, 1>>, <<3, 2>>>>
  /\ transport = OneTapAt(100, 300)

\* the reply holds the text "TAP (x,y)" and the parser's action is the tap at
\* (sx,sy)
ParsedTapFrom(x, y, sx, sy) ==
  /\ \E i \in 1..Len(vision_reply) : \E j \in 1..Len(vision_reply[i]) :
        vision_reply[i][j] = Tap(x, y)
  /\ TapMatch(action_to_execute) # 0
  /\ TapIdentity(action_to_execute) = <<sx, sy>>

\* the reply was parsed and the action is a tap
TapParsed ==
  /\ pc = "parsed"
  /\ action_to_execute # None
  /\ TapMatch(action_to_execute) # 0

\* C21: the tap the parser returns for a TAP (x,y) of the reply under the scale
\* factors (sw,sh) is at (floor(x*sw), floor(y*sh)), on the line-by-line path
\* and on the full-text path.
C21_ParserScaling ==
  TapParsed =>
    \E i \in 1..Len(vision_reply) : \E j \in 1..Len(vision_reply[i]) :
       /\ vision_reply[i][j].k = "TAP"
       /\ TapIdentity(action_to_execute) =
            << (vision_reply[i][j].x * vision_scale[1][1]) \div vision_scale[1][2],
               (vision_reply[i][j].y * vision_scale[2][1]) \div vision_scale[2][2] >>

\* C21, the example of the claim: TAP (100,200) under (2, 3/2) gives the tap at
\* (200,300)
C21_Example ==
  /\ pc = "parsed"
  /\ vision_scale = <<<<2, 1>>, <<3, 2>>>>
  /\ ParsedTapFrom(100, 200, 200, 300)

\* C21, the failing input: TAP (100,200) under (23/10, 3/2) gives the tap at
\* (229,300), and floor(100 * 23/10) is 230
C21_RoundedBelow ==
  /\ pc = "parsed"
  /\ vision_reply = ReplyTapExample
  /\ vision_scale = <<<<23, 10>>, <<3, 2>>>>
  /\ ParsedTapFrom(100, 200, 229, 300)

\* the place of the first line of the reply that is not skipped and matches an
\* action pattern, 0 if there is none
FirstPatternLine(reply) ==
  LET matching(i) == ~SkippedLine(reply[i]) /\ ActionKind(reply[i]) # "Other"
  IN IF \E i \in 1..Len(reply) : matching(i)
     THEN CHOOSE i \in 1..Len(reply) : matching(i) /\ \A j \in 1..(i - 1) : ~matching(j)
     ELSE 0

\* C22: the parser returns the action of the first line that is not skipped and
\* matches an action pattern, never of a later one: the action is of the kind
\* of that line, it is the line itself for a Type, Scroll or Complete line and
\* the scaled tap of the line for a Tap line.
C22_FirstMatchingLine ==
  (pc = "parsed" /\ FirstPatternLine(vision_reply) # 0) =>
    LET line == vision_reply[FirstPatternLine(vision_reply)]
    IN /\ action_to_execute # None
       /\ ActionKind(action_to_execute) = ActionKind(line)
       /\ ActionKind(line) # "Tap" => action_to_execute = line
       /\ ActionKind(line) = "Tap" =>
            TapIdentity(action_to_execute) =
              << ScaleCoord(TapIdentity(line)[1], vision_scale[1]),
                 ScaleCoord(TapIdentity(line)[2], vision_scale[2]) >>

\* C22 witness: the reply with the line "TAP (100,200)" followed by the line
\* "SCROLL down" was parsed under (2, 3/2) into the tap at (200,300)
C22_Witness ==
  /\ pc = "parsed"
  /\ vision_reply = ReplyTapThenScroll
  /\ vision_scale = <<<<2, 1>>, <<3, 2>>>>
  /\ ActionKind(action_to_execute) = "Tap"
  /\ TapIdentity(action_to_execute) = <<200, 300>>

\* C22, the other order reached: "SCROLL up" followed by "TAP (100,200)" was
\* parsed into the scroll line
C22_ScrollFirst ==
  /\ pc = "parsed"
  /\ vision_reply = ReplyScrollThenTap
  /\ action_to_execute = <<Word("SCROLL"), Word("up")>>

\* every line of the reply with an action pattern is a skipped line, and there
\* is one
OnlySkippedActionText(reply) ==
  /\ FirstPatternLine(reply) = 0
  /\ \E i \in 1..Len(reply) : SkippedLine(reply[i]) /\ ActionKind(reply[i]) # "Other"

\* C23: lines that begin with '#' or with a code fence are ignored: a reply
\* whose only action-like text is on such lines yields no action.
C23_SkippedLinesIgnored ==
  (pc = "parsed" /\ OnlySkippedActionText(vision_reply)) => action_to_execute = None

\* C23, the failing input: the reply with the line "# TAP (50,50)" between two
\* code fences was parsed into the tap at (50,50)
C23_FencedTapRecovered ==
  /\ pc = "parsed"
  /\ vision_reply = ReplyFenced
  /\ vision_scale = <<UnitScale, UnitScale>>
  /\ action_to_execute = <<Tap(50, 50), Word("#"), Word("extracted and scaled")>>

\* C23, what does hold: a reply whose skipped lines hold no action pattern and
\* whose other lines hold none either yields no action
C23_NoPatternNoAction ==
  (/\ pc = "parsed"
   /\ \A i \in 1..Len(vision_reply) : ActionKind(vision_reply[i]) = "Other")
    => action_to_execute = None

\* the action of the last parse, before it was parsed again: the text that was
\* the reply of the second parse
ParsedAgainFrom == Flatten(vision_reply)

\* C24: parsing the text of an action the parser returned, with the scale
\* factors (1,1), returns that action again.
C24_ParserIdempotent ==
  [][(pc = "parsed" /\ pc' = "parsed_again") => action_to_execute' = action_to_execute]_vars

\* C24, the failing input: the action "TYPE 'milk\nbread' # extracted action",
\* taken from a quoted text that runs over a line break, was parsed again into
\* "TYPE 'milk"
C24_BrokenTypeReparsed ==
  /\ pc = "parsed_again"
  /\ ParsedAgainFrom =
       <<TypeOpen("milk"), NL, QuoteEnd("bread"), Word("#"), Word("extracted action")>>
  /\ action_to_execute = <<TypeOpen("milk")>>

\* C24, what does hold: an action of one line is returned again
C24_OneLineIdempotent ==
  [][(/\ pc = "parsed"
      /\ pc' = "parsed_again"
      /\ Len(SplitLines(action_to_execute)) = 1)
       => action_to_execute' = action_to_execute]_vars

\* C24, the one-line case reached under a scale: the tap at (200,300), parsed
\* from TAP (100,200) under (2, 3/2), was parsed again into itself
C24_ScaledTapReparsed ==
  /\ pc = "parsed_again"
  /\ ParsedAgainFrom = <<Tap(200, 300), Word("#"), Word("scaled coordinates")>>
  /\ action_to_execute = ParsedAgainFrom

\* the number of elements of the list with a score above 0
ScoringCount(element_list) ==
  Cardinality({k \in 1..Len(element_list) : relevance_score(element_list[k]) > 0})

\* the place the element at k has among the elements with a score above 0, by
\* descending score and, for equal scores, by place in the list
RankOf(element_list, k) ==
  1 + Cardinality({j \in 1..Len(element_list) :
                     \/ relevance_score(element_list[j]) > relevance_score(element_list[k])
                     \/ /\ j < k
                        /\ relevance_score(element_list[j])
                             = relevance_score(element_list[k])})

\* the ranker was applied to the list
Ranked == pc = "elements" /\ pc' = "ranked"

\* C25: the ranker returns at most 5 elements, each with a score above 0, in
\* non-increasing score order; an element is returned at its place by
\* descending score, with elements of equal score in the order of the
\* snapshot, so that an element is left out only when 5 elements that score at
\* least as much are returned.
C25_Ranker ==
  [][Ranked =>
       /\ Len(ui_elements') <= 5
       /\ Len(ui_elements') =
            (IF ScoringCount(ui_elements) < 5 THEN ScoringCount(ui_elements) ELSE 5)
       /\ \A i \in 1..Len(ui_elements') : relevance_score(ui_elements'[i]) > 0
       /\ \A i \in 1..Len(ui_elements') : \A j \in (i + 1)..Len(ui_elements') :
             relevance_score(ui_elements'[i]) >= relevance_score(ui_elements'[j])
       /\ \A k \in 1..Len(ui_elements) :
             (relevance_score(ui_elements[k]) > 0 /\ RankOf(ui_elements, k) <= 5)
               => ui_elements'[RankOf(ui_elements, k)] = ui_elements[k]
       /\ \A k \in 1..Len(ui_elements) :
             (relevance_score(ui_elements[k]) > 0 /\ RankOf(ui_elements, k) > 5)
               => \A i \in 1..Len(ui_elements') :
                     relevance_score(ui_elements'[i]) >= relevance_score(ui_elements[k])
    ]_vars

\* C25 witness: 5 elements were returned, two search boxes first, then the
\* profile image before the banner of the same score 1, and the banner before
\* a second profile image
C25_Witness ==
  /\ pc = "ranked"
  /\ ui_elements = <<NodeElement(NodeSearchBox), NodeElement(NodeSearchBox),
                     NodeElement(NodeProfile), NodeElement(NodeBanner),
                     NodeElement(NodeProfile)>>

\* the direction of the command "SCROLL up" or "SCROLL down" of a text: the word
\* that follows the first SCROLL, "none" when there is no such command
ScrollCommand(text) ==
  LET at(i) == /\ text[i] = Word("SCROLL")
               /\ i < Len(text)
               /\ text[i + 1] \in {Word("up"), Word("down")}
  IN IF \E i \in 1..Len(text) : at(i)
     THEN text[(CHOOSE i \in 1..Len(text) : at(i) /\ \A j \in 1..(i - 1) : ~at(j)) + 1].w
     ELSE "none"

\* the action parsed from the reply was a scroll, and it was executed
ScrollExecuted ==
  /\ pc = "executed"
  /\ TapMatch(action_to_execute) = 0
  /\ ~TypeOpenMatch(action_to_execute)
  /\ HasLower(action_to_execute, "scroll")

\* C26: a reply whose action is SCROLL down is executed as a down scroll and
\* one whose action is SCROLL up as an up scroll, whatever the comment and
\* whichever path of the parser extracted the action.
C26_ScrollDirectionKept ==
  (ScrollExecuted /\ ScrollCommand(Flatten(vision_reply)) # "none")
    => transport = <<ScrollCall(ScrollCommand(Flatten(vision_reply)))>>

\* C26, a failing input of the line scan: "SCROLL down # popup" was executed as
\* an up scroll
C26_CommentTurnsScrollUp ==
  /\ pc = "executed"
  /\ vision_reply = ReplyScrollDownPopup
  /\ action_to_execute = ReplyScrollDownPopup[1]
  /\ transport = <<ScrollCall("up")>>

\* C26, a failing input of the full-text path: "SCROLL up" at the start of a
\* code fence was parsed into "SCROLL down # extracted action" and executed as a
\* down scroll
C26_RecoveredScrollGoesDown ==
  /\ pc = "executed"
  /\ vision_reply = ReplyFenceScrollUp
  /\ action_to_execute =
       <<Word("SCROLL"), Word("down"), Word("#"), Word("extracted action")>>
  /\ transport = <<ScrollCall("down")>>

\* C26, what does hold: a scroll line taken by the line scan, without "up" in
\* its comment, is executed in its direction
C26_ScannedScrollKept ==
  (/\ ScrollExecuted
   /\ ScrollCommand(action_to_execute) # "none"
   /\ action_to_execute \in {vision_reply[i] : i \in 1..Len(vision_reply)}
   /\ ~(Has(action_to_execute, "#") /\ HasLower(AfterHash(action_to_execute), "up")))
    => transport = <<ScrollCall(ScrollCommand(action_to_execute))>>

\* C26, the up scroll of the line scan reached: "SCROLL up # product" was
\* executed as an up scroll
C26_ScrollUpKept ==
  /\ pc = "executed"
  /\ vision_reply = ReplyScrollUpNote
  /\ transport = <<ScrollCall("up")>>

\* the number of times the identity occurs among the 4 entries of the history
\* that begin at place i
WindowCount(history, i, identity) ==
  Cardinality({j \in i..(i + RecentActionsWindow - 1) : history[j] = identity})

\* C27: no tap identity occurs more than 2 times among 4 consecutive entries
\* of the action history, so the same tap is never sent 3 times within 4
\* consecutive admitted taps.
C27_RepetitionBound ==
  \A i \in 1..(Len(executed_actions_history) - RecentActionsWindow + 1) :
    \A j \in i..(i + RecentActionsWindow - 1) :
      WindowCount(executed_actions_history, i, executed_actions_history[j]) <= 2

\* C27 witness: the last admitted tap is the third of its identity in the
\* history, it occurs 2 times among the last 4 entries, and the same tap offered
\* again has just been replaced by a scroll down
C27_Witness ==
  /\ branch = "decide"
  /\ ActionKind(action_to_execute) = "Tap"
  /\ Len(executed_actions_history) >= 5
  /\ Count(executed_actions_history, TapIdentity(action_to_execute)) >= 3
  /\ WindowCount(executed_actions_history,
                 Len(executed_actions_history) - RecentActionsWindow + 1,
                 TapIdentity(action_to_execute)) = 2
  /\ transport = <<ScrollCall("down")>>

TaskEnds == pc \in {"loop", "after_loop"} /\ pc' = "done"

\* the loop was left by the break of line 148 or by the completion flag
EndsCompleted == pc = "after_loop" \/ task_completion_achieved

\* on a screen that never changes the tiers decide on the first pass and every
\* later pass is a stall pass that sends a scroll down and nothing else
FirstPassDecides ==
  IterateStep =>
    IF current_step_number' = 1
    THEN branch' = "decide" /\ tiers' # << >>
    ELSE /\ branch' = "stall"
         /\ tiers' = << >>
         /\ transport' = <<ScrollCall("down")>>

\* C29 as stated: with the same fingerprint on every step the tiers are
\* consulted on the first step only, every later step is a stall step that sends
\* only a scroll down, and the task ends with its step budget exhausted, never
\* completed.
C29_PersistentStall ==
  [][/\ FirstPassDecides
     /\ TaskEnds =>
          /\ ~EndsCompleted
          /\ current_step_number = maximum_allowed_steps]_vars

\* C29 (amended): with the same fingerprint on every step the tiers are
\* consulted on the first step only and every later step is a stall step that
\* sends only a scroll down; the task ends completed only when the action of
\* its first step completed it, at step 1, and otherwise with its step budget
\* exhausted.
C29_StallUntilBudget ==
  [][/\ FirstPassDecides
     /\ TaskEnds =>
          IF EndsCompleted
          THEN current_step_number = 1 /\ branch = "decide"
          ELSE current_step_number = maximum_allowed_steps]_vars

\* C29 witness: a task of more than 2 steps ended with its budget exhausted, its
\* last pass a stall pass and one fingerprint recorded
C29_Witness ==
  /\ pc = "done"
  /\ maximum_allowed_steps > 2
  /\ current_step_number = maximum_allowed_steps
  /\ branch = "stall"
  /\ Len(screen_hash_history) = 1
  /\ transport = <<ScrollCall("down")>>
  /\ result = StepsMessage(current_step_number)

\* C29, the first step completing the task: with a budget of more than 1 step
\* the task ended at step 1 with the message of the reply
C29_CompletedAtFirstStep ==
  /\ pc = "done"
  /\ maximum_allowed_steps > 1
  /\ current_step_number = 1
  /\ vision_reply = ReplyComplete
  /\ result = <<Word("Found 3 items")>>

\* C30: the message carrying the step count is returned only when the step
\* counter has reached the step budget; a task whose loop stops earlier returns
\* a completion message.
C30_ExhaustionOnlyAtBudget ==
  [][TaskEnds =>
       /\ result' = StepsMessage(current_step_number)
            => current_step_number >= maximum_allowed_steps
       /\ current_step_number < maximum_allowed_steps
            => result' = CompletionMessage(action_to_execute)]_vars

\* C30, the failing input: with a budget of more than 1 step the reply
\* "task_complete" at step 1 ended the task with the message carrying the step
\* count 1
C30_StepsMessageEarly ==
  /\ pc = "done"
  /\ maximum_allowed_steps > 1
  /\ current_step_number = 1
  /\ vision_reply = ReplyCompleteLower
  /\ task_completion_achieved
  /\ result = StepsMessage(1)

\* C30, what does hold: a task whose loop stops before the budget on an action
\* with the marker in upper case returns a completion message, and a task whose
\* loop runs to the budget without such an action returns the message carrying
\* the step count
C30_MarkedEndReturnsCompletion ==
  [][TaskEnds =>
       /\ (current_step_number < maximum_allowed_steps /\ pc = "after_loop")
            => result' = CompletionMessage(action_to_execute)
       /\ (pc = "loop" /\ ~task_completion_achieved)
            => result' = StepsMessage(maximum_allowed_steps)]_vars

\* the calls of one pass on the AndroidController are at most one, a tap, a
\* text input or a scroll
AtMostOneCall(calls) ==
  /\ Len(calls) <= 1
  /\ \A i \in 1..Len(calls) : calls[i].op \in {"tap", "type", "scroll"}

\* C31: in every step at most one device action, one tap, one type or one
\* scroll, is sent to the device, on every path: stall, tap replaced by the
\* guard, admitted tap, type, scroll, completion.
C31_OneActionPerStep ==
  [][IterateStep =>
       /\ AtMostOneCall(transport')
       /\ branch' = "stall" => transport' = <<ScrollCall("down")>>
       /\ (branch' = "decide" /\ task_completion_achieved') => transport' = << >>
    ]_vars

\* C31 witness: the guard replaced the third tap at the same place, and the
\* scroll down is the one call of the pass
C31_Witness ==
  /\ branch = "decide"
  /\ current_step_number = 3
  /\ TapMatch(action_to_execute) # 0
  /\ executed_actions_history =
       <<TapIdentity(action_to_execute), TapIdentity(action_to_execute)>>
  /\ Len(transport) = 1
  /\ transport[1].op = "scroll"

\* C31, the other paths reached: a stall pass, an admitted tap, a text input,
\* a scroll of the reply and a completion each ended with their one call, or
\* with none for the completion
C31_StallPath == branch = "stall" /\ Len(transport) = 1 /\ transport[1].op = "scroll"
C31_TapPath ==
  /\ branch = "decide"
  /\ TapMatch(action_to_execute) # 0
  /\ Len(transport) = 1
  /\ transport[1].op = "tap"
C31_TypePath == branch = "decide" /\ Len(transport) = 1 /\ transport[1].op = "type"
C31_ScrollPath ==
  /\ branch = "decide"
  /\ ActionKind(action_to_execute) = "Scroll"
  /\ Len(transport) = 1
  /\ transport[1].op = "scroll"
C31_CompletionPath ==
  /\ branch = "decide"
  /\ ActionKind(action_to_execute) = "Complete"
  /\ current_step_number > 1
  /\ transport = << >>

\* C32: in every reachable state the two progress flags encode one of the
\* three phases: query_entered implies search_initiated, so query_entered
\* without search_initiated is never reached.
C32_PhaseWellFormed == query_entered => search_initiated

\* a Type action chosen and typed in the first pass of a task, while the
\* search was still pending, leaves query_entered set without search_initiated
C32_TypeWhilePending ==
  /\ branch = "decide"
  /\ current_step_number = 1
  /\ ActionKind(action_to_execute) = "Type"
  /\ TypeMatch(action_to_execute) # 0
  /\ Len(transport) = 1
  /\ transport[1].op = "type"
  /\ query_entered
  /\ ~search_initiated

====
